---- MODULE Spec2Model ----
(***************************************************************************)
(* Verification model of the SMS agent orchestration engine:               *)
(*   - utils/sms.js          chunkMessage, sendSMS                         *)
(*   - memory/conversation-memory.js  ConversationMemory over node-cache   *)
(*   - routes (SMSRoutes.register)    the /sms webhook handler             *)
(*   - sms/processor.js      SMSProcessor.process                          *)
(*   - agents/*.js           the tool loops of the three specialists       *)
(*                                                                         *)
(* Texts are sequences of one-character strings.  The cache is modelled    *)
(* as a map from keys to values with an absolute expiry time; the cache    *)
(* is assumed to hold fewer than its maxKeys entries.                      *)
(*                                                                         *)
(* Specifications: SpecChunk (chunking and sending one text), SpecStore    *)
(* (the conversation store), SpecLoop (one specialist run), SpecRoute (the *)
(* routing of one router response), SpecWebhook (deliveries to the         *)
(* webhook) and SpecCycle (deliveries and the invocations of process they  *)
(* start, interleaved at every await).                                     *)
(***************************************************************************)
EXTENDS Integers, Sequences, FiniteSets, TLC

(***************************************************************************)
(* Text helpers (JavaScript String semantics)                              *)
(***************************************************************************)
SP == " "
NL == "\n"

\* characters String.prototype.trim removes
IsWhitespace(c) == c \in {SP, NL}

\* s.repeat(n) for a one-character s
Rep(c, n) == [i \in 1..n |-> c]

\* s.substring(from, to) with 0-based from (inclusive) and to (exclusive)
Substring(s, from, to) ==
  LET f == IF from > Len(s) THEN Len(s) ELSE from
      t == IF to > Len(s) THEN Len(s) ELSE to
  IN SubSeq(s, f + 1, t)

\* s.lastIndexOf(' '): 0-based index of the last space, -1 when there is none
LastIndexOfSpace(s) ==
  LET idx == {i \in 1..Len(s) : s[i] = SP}
  IN IF idx = {} THEN -1 ELSE (CHOOSE i \in idx : \A j \in idx : j <= i) - 1

\* s.trim()
Trim(s) ==
  LET keep == {i \in 1..Len(s) : ~IsWhitespace(s[i])}
  IN IF keep = {} THEN <<>>
     ELSE SubSeq(s, CHOOSE i \in keep : \A j \in keep : i <= j,
                    CHOOSE i \in keep : \A j \in keep : j <= i)

Digit(d) == CASE d = 0 -> "0" [] d = 1 -> "1" [] d = 2 -> "2" [] d = 3 -> "3"
              [] d = 4 -> "4" [] d = 5 -> "5" [] d = 6 -> "6" [] d = 7 -> "7"
              [] d = 8 -> "8" [] d = 9 -> "9"

\* decimal rendering of a natural number inside a template literal
RECURSIVE NumToText(_)
NumToText(n) == IF n < 10 THEN <<Digit(n)>>
                ELSE NumToText(n \div 10) \o <<Digit(n % 10)>>

\* the part marker `(${i + 1}/${chunks.length}) `
PartMarker(i, n) == <<"(">> \o NumToText(i) \o <<"/">> \o NumToText(n) \o <<")", SP>>

(***************************************************************************)
(* utils/sms.js                                                            *)
(***************************************************************************)
DefaultMaxLength == 300

\* remaining = remaining.substring(splitPoint).trim()
RemainderSkipsOne(remaining, splitPoint) ==
  Trim(Substring(remaining, splitPoint + 1, Len(remaining)))
Remainder(remaining, splitPoint) ==
  Trim(Substring(remaining, splitPoint, Len(remaining)))

\* the while loop of chunkMessage: the bodies before part numbers are added
RECURSIVE ChunkBodies(_, _)
ChunkBodies(remaining, maxLength) ==
  IF Len(remaining) = 0 THEN <<>>
  ELSE LET lastSpace == LastIndexOfSpace(Substring(remaining, 0, maxLength))
           splitPoint == IF Len(remaining) > maxLength
                         THEN (IF lastSpace > 0 THEN lastSpace ELSE maxLength)
                         ELSE Len(remaining)
       IN <<Trim(Substring(remaining, 0, splitPoint))>>
          \o ChunkBodies(Remainder(remaining, splitPoint), maxLength)

chunkMessage(message, maxLength) ==
  IF Len(message) <= maxLength THEN <<message>>
  ELSE LET chunks == ChunkBodies(message, maxLength)
       IN IF Len(chunks) > 1
          THEN [i \in 1..Len(chunks) |-> PartMarker(i, Len(chunks)) \o chunks[i]]
          ELSE chunks

(***************************************************************************)
(* agents/base-agent.js, agents/business-agent.js, agents/real-estate-agent.js *)
(* The tool loop of one specialist run.                                    *)
(***************************************************************************)
Agents == {"general", "business", "real_estate"}

\* tool names a reasoning result may carry; "lookup_tool" stands for any name
\* that extractFallbackParameters handles in its default branch
ToolNames == {"smart_data_query_sms", "smart_property_search_sms", "lookup_tool"}

\* the arguments string of a function call: parses to a non-empty object,
\* parses to {}, or does not parse
ArgKinds == {"valid", "empty", "bad"}

FunctionCalls == [name : ToolNames, arguments : ArgKinds]

\* the function_call items of one reasoning result: none, one or two
CallLists == {<<>>} \cup {<<c>> : c \in FunctionCalls}
             \cup {<<c, d>> : c \in FunctionCalls, d \in FunctionCalls}

\* where a reasoning result carries its text: nowhere, in output_text, or in
\* the message items of the output array
TextKinds == {"none", "flat", "parts"}

\* a result that requests tools carries no text here; the text of a result is
\* read only after the loop, where the function calls no longer matter
Responses == [calls : CallLists \ {<<>>}, text : {"none"}]
             \cup [calls : {<<>>}, text : TextKinds]

\* what a tool execution resolves to
ToolResults == {"short_string", "long_string", "object_message", "object_plain"}

\* last user turns handed to the loop (words of the content)
UserMessages == {<<"what", "can", "you", "do">>, <<"trends", "in", "Chicago">>}

StopWords == {"what", "are", "the", "can", "you", "tell", "me", "show", "give",
              "find", "about"}

\* extractFallbackParameters: TRUE when the returned parameter map has a key.
\* The three named branches always return an object with a query or an
\* address; the default branch returns {} when no word is meaningful.
extractFallbackParameters(toolName, userMessage) ==
  IF toolName \in {"web_search_sms", "smart_data_query_sms", "smart_property_search_sms"}
  THEN TRUE
  ELSE \E i \in 1..Len(userMessage) :
          Len(userMessage[i]) > 3 /\ userMessage[i] \notin StopWords

maxIterations == 10

\* while (iterations < maxIterations)
LoopGuardOffByOne(iterations) == iterations <= maxIterations
LoopGuard(iterations) == iterations < maxIterations

\* successfulTools.has(name) / calledTools.has(name)
AlreadySucceededNever(name, done) == FALSE
AlreadySucceeded(name, done) == name \in done

\* failedCount >= 2
FailureCeilingThree(failedCount) == failedCount >= 3
FailureCeiling(failedCount) == failedCount >= 2

\* shouldDisableTools of the three specialists
shouldDisableTools(agent, done, iterations) ==
  CASE agent = "general" ->
         \/ "smart_data_query_sms" \in done
         \/ Cardinality(done) >= 2
         \/ iterations >= 3
    [] agent = "business" ->
         \/ "smart_data_query_sms" \in done
         \/ Cardinality(done) >= 2
         \/ iterations >= 2
    [] agent = "real_estate" ->
         \/ "smart_property_search_sms" \in done
         \/ Cardinality(done) >= 2
         \/ iterations >= 2

\* the final text extraction after the loop: the kind of text returned
FinalText(agent, response, lastToolResult) ==
  IF response.text \in {"flat", "parts"} THEN "model_text"
  ELSE IF lastToolResult # "null"
  THEN CASE agent = "general" ->
              (CASE lastToolResult = "short_string" -> "tool_string"
                 [] lastToolResult = "object_message" -> "tool_message"
                 [] OTHER -> "summary")
         [] agent = "business" ->
              (CASE lastToolResult \in {"short_string", "long_string"} -> "tool_string"
                 [] lastToolResult = "object_message" -> "tool_message"
                 [] OTHER -> "summary")
         [] agent = "real_estate" ->
              (CASE lastToolResult \in {"short_string", "long_string"} -> "tool_string"
                 [] lastToolResult = "object_message" -> "tool_message"
                 [] OTHER -> "raw_json")
  ELSE "apology"

VARIABLES
  lAgent,            \* the specialist whose loop runs
  lPc,               \* position in process / handleToolCalls
  lMessage,          \* content of the last user message
  currentResponse,   \* the reasoning result being inspected
  iterations,
  successfulTools,   \* successfulTools (general) / calledTools (business, real estate)
  failedAttempts,    \* general only: failures per tool name
  allToolResults,    \* tool names of the results pushed, in order
  lastToolResult,
  toolsExecutedThisIteration,
  callIdx,           \* index of the for loop over functionCalls
  toolsOffered,      \* whether the last reasoning request carried the tool catalog
  lContent,          \* content of the returned message
  lExit,             \* how the run left the while loop
  requests,          \* history: reasoning requests issued
  failures,          \* history: per tool name, attempts that failed
  lTrace             \* history: what the for loop did with the last function call

loopVars == <<lAgent, lPc, lMessage, currentResponse, iterations, successfulTools,
              failedAttempts, allToolResults, lastToolResult,
              toolsExecutedThisIteration, callIdx, toolsOffered, lContent, lExit,
              requests, failures, lTrace>>

NoResponse == [calls |-> <<>>, text |-> "none"]
Zero == [n \in ToolNames |-> 0]

\* the values of the loop variables while no loop run is modelled
LoopIdle ==
  /\ lAgent = "general" /\ lPc = "idle" /\ lMessage = <<>>
  /\ currentResponse = NoResponse /\ iterations = 0 /\ successfulTools = {}
  /\ failedAttempts = Zero /\ allToolResults = <<>> /\ lastToolResult = "null"
  /\ toolsExecutedThisIteration = FALSE /\ callIdx = 0 /\ toolsOffered = FALSE
  /\ lContent = "none" /\ lExit = "none" /\ requests = 0
  /\ failures = Zero /\ lTrace = "none"

\* the text sendSMS sends in place of an empty message
EmptyMessageText ==
  <<"S", "o", "r", "r", "y", ",", " ", "I", " ", "e", "n", "c", "o", "u",
    "n", "t", "e", "r", "e", "d", " ", "a", "n", " ", "e", "r", "r", "o",
    "r", " ", "g", "e", "n", "e", "r", "a", "t", "i", "n", "g", " ", "a",
    " ", "r", "e", "s", "p", "o", "n", "s", "e", ".", " ", "P", "l", "e",
    "a", "s", "e", " ", "t", "r", "y", " ", "a", "g", "a", "i", "n", ".">>

\* sendSMS(twilioClient, to, message, fromNumber); failAt is the index of the
\* messages.create call that rejects (0: none does).  handed: the bodies passed
\* to messages.create, delivered: those the channel accepted.
sendSMS(hasClient, message, failAt) ==
  IF ~hasClient
  THEN [handed |-> <<>>, delivered |-> <<>>, threw |-> FALSE]
  ELSE LET text == IF Len(message) = 0 \/ Len(Trim(message)) = 0
                   THEN EmptyMessageText ELSE message
           chunks == chunkMessage(text, DefaultMaxLength)
       IN IF failAt \in 1..Len(chunks)
          THEN [handed |-> SubSeq(chunks, 1, failAt),
                delivered |-> SubSeq(chunks, 1, failAt - 1), threw |-> TRUE]
          ELSE [handed |-> chunks, delivered |-> chunks, threw |-> FALSE]

(***************************************************************************)
(* memory/cache.js and memory/conversation-memory.js                       *)
(* The node-cache instance: every key holds a value and an absolute expiry *)
(* time t = now + ttl (seconds); an entry with t < now is gone.            *)
(***************************************************************************)
stdTTL == 7200
RetentionCap == 50
DefaultHistoryLimit == 20

Identities == {"+15550001", "+15550002"}

NoEntry == [has |-> FALSE, v |-> <<>>, t |-> 0]

\* cache.get(key): the entry is alive
Alive(entry, time) == entry.has /\ ~(entry.t < time)

\* cache.set(key, value, ttl)
CacheSet(value, ttl, time) == [has |-> TRUE, v |-> value, t |-> time + ttl]

\* array.slice(-limit): the last limit elements; slice(-0) is slice(0)
SliceLast(messages, limit) ==
  IF limit = 0 THEN messages
  ELSE IF limit >= Len(messages) THEN messages
  ELSE SubSeq(messages, Len(messages) - limit + 1, Len(messages))

\* the trim of addMessage: messages.length > 50 ? messages.slice(-50) : messages
TrimKeepsOneMore(messages) ==
  IF Len(messages) > RetentionCap + 1 THEN SliceLast(messages, RetentionCap + 1)
  ELSE messages
TrimToCap(messages) ==
  IF Len(messages) > RetentionCap THEN SliceLast(messages, RetentionCap) ELSE messages

\* the value addMessage stores: cache.get(key) || [], push, trim
addMessagePrepends(entry, message, time) ==
  LET messages == IF Alive(entry, time) THEN entry.v ELSE <<>>
  IN CacheSet(TrimToCap(<<message>> \o messages), stdTTL, time)
addMessageFromEmpty(entry, message, time) ==
  CacheSet(TrimToCap(Append(<<>>, message)), stdTTL, time)
addMessage(entry, message, time) ==
  LET messages == IF Alive(entry, time) THEN entry.v ELSE <<>>
  IN CacheSet(TrimToCap(Append(messages, message)), stdTTL, time)

\* getConversationHistory(phoneNumber, limit)
getConversationHistory(entry, limit, time) ==
  SliceLast(IF Alive(entry, time) THEN entry.v ELSE <<>>, limit)

\* getUserContext(phoneNumber): the context in a list, the empty list for null
getUserContext(entry, time) == IF Alive(entry, time) THEN <<entry.v>> ELSE <<>>

(***************************************************************************)
(* Inputs of the chunking runs                                             *)
(***************************************************************************)
MaxTextLen == 5
MaxSmallLimit == 3
MaxSegments == 3
\* the messages.create call that may reject is one of the first MaxFailAt
MaxFailAt == 2

Alphabet == {"a", SP, NL}

\* every text of at most MaxTextLen characters
SmallTexts == UNION {[1..n -> Alphabet] : n \in 0..MaxTextLen}

\* long texts are built from runs around the default limit
Segments == {Rep("a", 1), Rep("a", 150), Rep("a", 299),
             Rep(SP, 1), Rep(SP, 150), Rep(SP, 299), <<NL>>}

RECURSIVE Concat(_)
Concat(seqs) == IF Len(seqs) = 0 THEN <<>> ELSE Head(seqs) \o Concat(Tail(seqs))

LongTexts == {Concat(segs) : segs \in UNION {[1..n -> Segments] : n \in 1..MaxSegments}}

Texts == SmallTexts \cup LongTexts

Limits == 1..MaxSmallLimit \cup {DefaultMaxLength}

\* small limits are tried on small texts only
LimitsFor(text) == IF Len(text) <= MaxTextLen
                   THEN 1..MaxSmallLimit \cup {DefaultMaxLength}
                   ELSE {DefaultMaxLength}

VARIABLES
  now,        \* the clock, in seconds
  conv,       \* per identity: the cache entry sms:conversation:<phone>
  ctx,        \* per identity: the cache entry sms:user_context:<phone>
  appended,   \* history: per identity, the turns appended since the record began
  sOp         \* history: the last store operation and its result

storeVars == <<now, conv, ctx, appended, sOp>>

NoOp == [op |-> "none", id |-> "", limit |-> 0, result |-> <<>>, afterAdd |-> FALSE]

\* the values of the store variables while the store is not modelled
StoreIdle ==
  /\ now = 0
  /\ conv = [id \in Identities |-> NoEntry]
  /\ ctx = [id \in Identities |-> NoEntry]
  /\ appended = [id \in Identities |-> <<>>]
  /\ sOp = NoOp

VARIABLES cText, cLimit, cChunks, cPc, cSent

chunkVars == <<cText, cLimit, cChunks, cPc, cSent>>

\* the values of the chunking variables while no chunking run is modelled
ChunkIdle ==
  cText = <<>> /\ cLimit = 0 /\ cChunks = <<>> /\ cPc = "idle" /\ cSent = <<>>

(***************************************************************************)
(* agents/router-agent.js and the agentMap of sms/processor.js            *)
(***************************************************************************)
\* String.prototype.toUpperCase and toLowerCase, character by character
ToUpperChar(c) ==
  CASE c = "a" -> "A" [] c = "b" -> "B" [] c = "c" -> "C" [] c = "d" -> "D"
    [] c = "e" -> "E" [] c = "f" -> "F" [] c = "g" -> "G" [] c = "h" -> "H"
    [] c = "i" -> "I" [] c = "j" -> "J" [] c = "k" -> "K" [] c = "l" -> "L"
    [] c = "m" -> "M" [] c = "n" -> "N" [] c = "o" -> "O" [] c = "p" -> "P"
    [] c = "q" -> "Q" [] c = "r" -> "R" [] c = "s" -> "S" [] c = "t" -> "T"
    [] c = "u" -> "U" [] c = "v" -> "V" [] c = "w" -> "W" [] c = "x" -> "X"
    [] c = "y" -> "Y" [] c = "z" -> "Z"
    [] OTHER -> c
ToLowerChar(c) ==
  CASE c = "A" -> "a" [] c = "B" -> "b" [] c = "C" -> "c" [] c = "D" -> "d"
    [] c = "E" -> "e" [] c = "F" -> "f" [] c = "G" -> "g" [] c = "H" -> "h"
    [] c = "I" -> "i" [] c = "J" -> "j" [] c = "K" -> "k" [] c = "L" -> "l"
    [] c = "M" -> "m" [] c = "N" -> "n" [] c = "O" -> "o" [] c = "P" -> "p"
    [] c = "Q" -> "q" [] c = "R" -> "r" [] c = "S" -> "s" [] c = "T" -> "t"
    [] c = "U" -> "u" [] c = "V" -> "v" [] c = "W" -> "w" [] c = "X" -> "x"
    [] c = "Y" -> "y" [] c = "Z" -> "z"
    [] OTHER -> c
ToUpperCase(s) == [i \in 1..Len(s) |-> ToUpperChar(s[i])]
ToLowerCase(s) == [i \in 1..Len(s) |-> ToLowerChar(s[i])]
BUSINESS_AGENT ==
  <<"B", "U", "S", "I", "N", "E", "S", "S", "_", "A", "G", "E", "N", "T">>
REAL_ESTATE_AGENT ==
  <<"R", "E", "A", "L", "_", "E", "S", "T", "A", "T", "E", "_", "A", "G",
    "E", "N", "T">>
GENERAL_AGENT ==
  <<"G", "E", "N", "E", "R", "A", "L", "_", "A", "G", "E", "N", "T">>

\* the three specialists of the enumeration, by the name the router prompt
\* gives each
MemberNames ==
  (BUSINESS_AGENT :> "business") @@ (REAL_ESTATE_AGENT :> "real_estate")
    @@ (GENERAL_AGENT :> "general")

\* the own keys of agentMap: the upper-case names, the lower-case
\* underscore names, and the simplified names
agentMap ==
  (<<"B", "U", "S", "I", "N", "E", "S", "S", "_", "A", "G", "E", "N",
       "T">> :> "business")
  @@ (<<"R", "E", "A", "L", "_", "E", "S", "T", "A", "T", "E", "_", "A", "G", "E",
       "N", "T">> :> "real_estate")
  @@ (<<"G", "E", "N", "E", "R", "A", "L", "_", "A", "G", "E", "N",
       "T">> :> "general")
  @@ (<<"b", "u", "s", "i", "n", "e", "s", "s", "_", "a", "g", "e", "n",
       "t">> :> "business")
  @@ (<<"r", "e", "a", "l", "_", "e", "s", "t", "a", "t", "e", "_", "a", "g", "e",
       "n", "t">> :> "real_estate")
  @@ (<<"g", "e", "n", "e", "r", "a", "l", "_", "a", "g", "e", "n",
       "t">> :> "general")
  @@ (<<"b", "u", "s", "i", "n", "e", "s", "s">> :> "business")
  @@ (<<"r", "e", "a", "l", "_", "e", "s", "t", "a", "t", "e">> :> "real_estate")
  @@ (<<"g", "e", "n", "e", "r", "a", "l">> :> "general")

\* names agentMap inherits from Object.prototype: agentMap[name] is a
\* truthy value that is not an agent key
ObjectPrototypeNames ==
  {<<"c", "o", "n", "s", "t", "r", "u", "c", "t", "o", "r">>,
   <<"t", "o", "S", "t", "r", "i", "n", "g">>,
   <<"v", "a", "l", "u", "e", "O", "f">>,
   <<"h", "a", "s", "O", "w", "n", "P", "r", "o", "p", "e", "r", "t", "y">>,
   <<"_", "_", "p", "r", "o", "t", "o", "_", "_">>}

\* the agents initializeAgents builds
subAgents == {"router", "business", "real_estate", "general"}

\* const agentKey = agentMap[specialist] || 'general'
agentKeyDefaultsToFirst(specialist) ==
  IF specialist \in DOMAIN agentMap THEN agentMap[specialist]
  ELSE IF specialist \in ObjectPrototypeNames THEN "inherited"
  ELSE "business"
agentKeyOf(specialist) ==
  IF specialist \in DOMAIN agentMap THEN agentMap[specialist]
  ELSE IF specialist \in ObjectPrototypeNames THEN "inherited"
  ELSE "general"

\* const selectedAgent = this.subAgents[agentKey] || this.subAgents.general
selectedAgentOf(agentKey) ==
  IF agentKey \in subAgents THEN agentKey ELSE "general"

\* the text of one item of response.output: the first output_text content
\* with a text, trimmed, when the item is an assistant message
ItemText(item) ==
  IF item.type = "message" /\ item.role = "assistant"
  THEN LET hits == {i \in 1..Len(item.content) :
                      /\ item.content[i].type = "output_text"
                      /\ Len(item.content[i].text) > 0}
       IN IF hits = {} THEN <<>>
          ELSE Trim(item.content[CHOOSE i \in hits : \A j \in hits : i <= j].text)
  ELSE <<>>

\* the loop over response.output: the first item that yields a text
RECURSIVE FirstItemText(_)
FirstItemText(output) ==
  IF Len(output) = 0 THEN <<>>
  ELSE IF Len(ItemText(Head(output))) > 0 THEN ItemText(Head(output))
  ELSE FirstItemText(Tail(output))

\* RouterAgent.process: the content it returns for a response of the
\* reasoning service; output_text absent is the empty text
RouterContent(response) ==
  LET finalText == Trim(response.output_text)
      parsed == IF Len(finalText) = 0 /\ response.isArray
                THEN FirstItemText(response.output) ELSE finalText
  IN IF Len(parsed) = 0 THEN GENERAL_AGENT ELSE parsed

\* the routing of SMSProcessor.process, from the router's content to the
\* selected agent
RoutingOf(content) ==
  LET specialist == Trim(content)
      agentKey == agentKeyOf(specialist)
  IN [specialist |-> specialist, agentKey |-> agentKey,
      selectedAgent |-> selectedAgentOf(agentKey)]


(***************************************************************************)
(* Inputs of the routing runs: what the reasoning service may answer the  *)
(* router                                                                  *)
(***************************************************************************)
\* answers that are no own key of agentMap
OtherAnswers ==
  {<<>>,
   <<"B", "u", "s", "i", "n", "e", "s", "s", "_", "A", "g", "e", "n", "t">>,
   <<"R", "e", "a", "l", "_", "E", "s", "t", "a", "t", "e", "_", "A", "g", "e", "n", "t">>,
   <<"g", "e", "n", "e", "r", "a", "l", "_", "A", "g", "e", "n", "t">>,
   <<"B", "U", "S", "I", "N", "E", "S", "S", " ", "A", "G", "E", "N", "T">>,
   <<"r", "o", "u", "t", "e", "r">>,
   <<"p", "r", "o", "p", "e", "r", "t", "y">>,
   <<"I", " ", "t", "h", "i", "n", "k", " ", "B", "U", "S", "I", "N", "E", "S", "S", "_", "A", "G", "E", "N", "T">>}

Paddings == {<<>>, <<SP>>, <<NL>>, <<SP, NL>>}

RouterTexts ==
  {pre \o core \o post :
     pre \in Paddings, post \in Paddings,
     core \in DOMAIN agentMap \cup ObjectPrototypeNames \cup OtherAnswers}

\* response.output as the service may send it when output_text is blank
OutputItem(type, role, contentType, text) ==
  [type |-> type, role |-> role,
   content |-> <<[type |-> contentType, text |-> text]>>]

OutputArrays ==
  {<<>>,
   <<OutputItem("reasoning", "assistant", "summary_text", BUSINESS_AGENT)>>,
   <<OutputItem("message", "assistant", "refusal", BUSINESS_AGENT)>>,
   <<OutputItem("message", "assistant", "output_text", <<SP>>),
     OutputItem("message", "assistant", "output_text",
                <<SP>> \o REAL_ESTATE_AGENT \o <<NL>>)>>,
   <<OutputItem("message", "assistant", "output_text", <<>>),
     OutputItem("message", "assistant", "output_text", <<"R", "e", "a", "l">>)>>}

RouterResponses ==
  [output_text : RouterTexts, isArray : {FALSE}, output : {<<>>}]
    \cup [output_text : Paddings, isArray : {TRUE}, output : OutputArrays]

NoRouterResponse == [output_text |-> <<>>, isArray |-> FALSE, output |-> <<>>]
NoRouting == [specialist |-> <<>>, agentKey |-> "", selectedAgent |-> ""]

VARIABLES
  rResponse,  \* the response of the reasoning service to the router
  rContent,   \* routeResponse.content
  rRouting,   \* specialist, agentKey and selectedAgent of the processor
  rPc

routeVars == <<rResponse, rContent, rRouting, rPc>>

\* the values of the routing variables while no routing run is modelled
RouteIdle ==
  /\ rResponse = NoRouterResponse /\ rContent = <<>> /\ rRouting = NoRouting
  /\ rPc = "idle"

(***************************************************************************)
(* The /sms webhook of SMSRoutes.register and SMSProcessor.process         *)
(***************************************************************************)
IdempotencyTTL == 600
OptOutTTL == 31536000
HistoryForProcess == 10

Sids == {"SM1"}
NoSid == "none"

\* request.body.From as it arrives: the number with its +, with the + decoded
\* to a space, or without it
RawFroms == [lead : {"+", " ", ""}, digits : {"15550001", "15550002"}]

\* From.startsWith('+') ? From : `+${From.trim()}`
fromNumber(raw) ==
  IF raw.lead = "+" THEN raw.lead \o raw.digits ELSE "+" \o raw.digits

Stop == <<"s", "t", "o", "p">>
Unsubscribe == <<"u", "n", "s", "u", "b", "s", "c", "r", "i", "b", "e">>
Start == <<"s", "t", "a", "r", "t">>
Subscribe == <<"s", "u", "b", "s", "c", "r", "i", "b", "e">>
Help == <<"h", "e", "l", "p">>

\* the keyword of Body.toLowerCase().trim()
KeywordOf(body) ==
  LET bodyLower == Trim(ToLowerCase(body))
  IN IF bodyLower \in {Stop, Unsubscribe} THEN "stop"
     ELSE IF bodyLower \in {Start, Subscribe} THEN "start"
     ELSE IF bodyLower = Help THEN "help"
     ELSE "none"

\* request.body.Body as it arrives; the empty text is a missing Body
Bodies ==
  {<<>>, <<"H", "i">>, <<" ", "S", "t", "o", "p">>,
   <<"S", "T", "A", "R", "T">>, <<"H", "e", "l", "p", "\n">>,
   <<"s", "t", "o", "p", " ", "i", "t">>}

\* if (cache.get(idempotencyKey)): the delivery is a duplicate
IsDuplicateNever(entry, time) == FALSE
IsDuplicate(entry, time) == Alive(entry, time)

\* the interim message of generateInterimMessage, by its length
InterimMessage == Rep("i", 62)

\* the apology of the catch block of process
ApologyMessage ==
  <<"S", "o", "r", "r", "y", ",", " ", "I", " ", "e", "n", "c", "o", "u",
    "n", "t", "e", "r", "e", "d", " ", "a", "n", " ", "e", "r", "r", "o",
    "r", " ", "p", "r", "o", "c", "e", "s", "s", "i", "n", "g", " ", "y",
    "o", "u", "r", " ", "m", "e", "s", "s", "a", "g", "e", ".", " ", "P",
    "l", "e", "a", "s", "e", " ", "t", "r", "y", " ", "a", "g", "a", "i",
    "n", ".">>

\* the contents a specialist returns: one that fits one SMS and one that
\* needs two
ResponseKinds == {"short", "long"}
ResponseText(kind) ==
  IF kind = "short" THEN <<"o", "k">>
  ELSE Rep("a", 150) \o <<SP>> \o Rep("a", 150)

\* the texts process hands to sendSMS
SentText(what) ==
  IF what = "interim" THEN InterimMessage
  ELSE IF what = "apology" THEN ApologyMessage
  ELSE ResponseText(what)

\* sendSMS(twilioClient, fromNumber, text, fromPhoneNumber) for each of these
\* texts and each call the channel may reject
Sends ==
  [what \in {"interim", "apology"} \cup ResponseKinds, failAt \in 0..MaxFailAt |->
     sendSMS(TRUE, SentText(what), failAt)]

\* what the reasoning service answers the router in the cycles
CycleRouterResponses ==
  [output_text : {<<SP>> \o BUSINESS_AGENT},
   isArray : {FALSE}, output : {<<>>}]

NoSent == [interim |-> 0, answer |-> 0, apology |-> 0]
NoProcess ==
  [pc |-> "none", from |-> "", body |-> <<>>, userContext |-> FALSE,
   history |-> <<>>, routing |-> NoRouting, finalResponse |-> "none",
   sent |-> NoSent]

VARIABLES
  idem,       \* per MessageSid: the cache entry sms:sid:<sid>
  optOut,     \* per identity: the cache entry opt_out:<phone>
  immediates, \* the setImmediate callbacks not yet run, oldest first
  procs,      \* per delivery: the invocation of process it started
  log         \* history: per delivery, its sid, time and HTTP response

cycleVars == <<idem, optOut, immediates, procs, log>>

MaxDeliveries == 2

\* the values of the cycle variables while no cycle is modelled
CycleIdle ==
  /\ idem = [sid \in Sids |-> NoEntry]
  /\ optOut = [id \in Identities |-> NoEntry]
  /\ immediates = <<>>
  /\ procs = [d \in 1..MaxDeliveries |-> NoProcess]
  /\ log = <<>>

(***************************************************************************)
(* The multi-provider property search of smart-property-search.js and its  *)
(* handler in the tool executor.                                           *)
(***************************************************************************)
residentialKeywords ==
  { <<"r", "e", "n", "t">>,
    <<"r", "e", "n", "t", "a", "l">>,
    <<"a", "p", "a", "r", "t", "m", "e", "n", "t">>,
    <<"c", "o", "n", "d", "o">>,
    <<"h", "o", "u", "s", "e">>,
    <<"r", "e", "s", "i", "d", "e", "n", "t", "i", "a", "l">>,
    <<"b", "e", "d", "r", "o", "o", "m">>,
    <<"b", "a", "t", "h", "r", "o", "o", "m">>,
    <<"t", "e", "n", "a", "n", "t">>,
    <<"l", "e", "a", "s", "e">>,
    <<"m", "o", "n", "t", "h", "l", "y">> }

Includes(text, part) ==
  \E i \in 0..(Len(text) - Len(part)) : SubSeq(text, i + 1, i + Len(part)) = part

\* isResidentialQuery reads query.toLowerCase(): with no query it throws.
isResidentialQueryThrows(parameters) == ~parameters.hasQuery

isResidentialQuery(parameters) ==
  \E keyword \in residentialKeywords : Includes(ToLowerCase(parameters.query), keyword)

QueryTexts ==
  { <<>>,
    <<"o", "f", "f", "i", "c", "e">>,
    <<"R", "E", "N", "T">>,
    <<"c", "u", "r", "r", "e", "n", "t">> }

\* The arguments of one search: the query may be missing from the object.
SearchParameters ==
  [hasQuery : {TRUE}, query : QueryTexts, hasAddress : BOOLEAN]
    \cup [hasQuery : {FALSE}, query : {<<>>}, hasAddress : {TRUE}]

\* What a provider call can settle with; throws is a rejected promise.
\* properties = -1 stands for a payload without the list.
AttomResults ==
  [throws : {FALSE}, isNull : {FALSE}, error : BOOLEAN, properties : {-1, 0, 1}]
    \cup {[throws |-> FALSE, isNull |-> TRUE, error |-> FALSE, properties |-> -1],
          [throws |-> TRUE, isNull |-> FALSE, error |-> FALSE, properties |-> -1]}

RentcastResults ==
  [throws : {FALSE}, isNull : {FALSE}, error : BOOLEAN, properties : {-1}]
    \cup {[throws |-> FALSE, isNull |-> TRUE, error |-> FALSE, properties |-> -1],
          [throws |-> TRUE, isNull |-> FALSE, error |-> FALSE, properties |-> -1]}

WebResults == AttomResults

NoProviderResult == [throws |-> FALSE, isNull |-> TRUE, error |-> FALSE, properties |-> -1]

AttomFoundAlways(result) == ~result.throws

AttomFound(result) ==
  ~result.throws /\ ~result.isNull /\ ~result.error /\ result.properties > 0

RentcastFound(result) == ~result.throws /\ ~result.isNull /\ ~result.error

\* webResult.results.length of a payload without the list throws inside the try.
WebFound(result) ==
  ~result.throws /\ ~result.isNull /\ ~result.error /\ result.properties > 0

AttomSource == "ATTOM Data (Commercial & Residential)"
RentcastSource == "RentCast (Residential)"
WebSource == "Web Search"

SearchSuccess(source) ==
  [success |-> "true", source |-> source, hasError |-> FALSE, hasMessage |-> TRUE]

AllSearchesFailed ==
  [success |-> "false", source |-> "none", hasError |-> TRUE, hasMessage |-> TRUE]

\* The catch of handleSmartPropertySearch: an object with an error text only.
FailedToSearch ==
  [success |-> "absent", source |-> "none", hasError |-> TRUE, hasMessage |-> FALSE]

NoSearchResult ==
  [success |-> "absent", source |-> "none", hasError |-> FALSE, hasMessage |-> FALSE]

NoSearchParameters == [hasQuery |-> TRUE, query |-> <<>>, hasAddress |-> FALSE]

VARIABLES qParameters, qPc, qCalls, qResult

searchVars == <<qParameters, qPc, qCalls, qResult>>

SearchIdle ==
  /\ qParameters = NoSearchParameters /\ qPc = "idle" /\ qCalls = <<>>
  /\ qResult = NoSearchResult

(***************************************************************************)
(* The final text extraction of the three loops on concrete texts:         *)
(* SubAgent.process (general), RealEstateAgent.handleToolCalls and         *)
(* BusinessAgent.handleToolCalls.                                          *)
(***************************************************************************)
SummaryCeiling == 500

GeneralSummary ==
  <<"I", " ", "f", "o", "u", "n", "d", " ", "t", "h", "e", " ", "d", "a",
    "t", "a", " ", "y", "o", "u", " ", "r", "e", "q", "u", "e", "s", "t",
    "e", "d", ".", " ", "T", "h", "e", " ", "a", "n", "a", "l", "y", "s",
    "i", "s", " ", "s", "h", "o", "w", "s", " ", "m", "u", "l", "t", "i",
    "p", "l", "e", " ", "r", "e", "c", "o", "r", "d", "s", " ", "w", "i",
    "t", "h", " ", "v", "a", "r", "y", "i", "n", "g", " ", "p", "e", "r",
    "f", "o", "r", "m", "a", "n", "c", "e", " ", "m", "e", "t", "r", "i",
    "c", "s", ".", " ", "P", "l", "e", "a", "s", "e", " ", "b", "e", " ",
    "m", "o", "r", "e", " ", "s", "p", "e", "c", "i", "f", "i", "c", " ",
    "a", "b", "o", "u", "t", " ", "w", "h", "i", "c", "h", " ", "a", "s",
    "p", "e", "c", "t", "s", " ", "y", "o", "u", "'", "d", " ", "l", "i",
    "k", "e", " ", "m", "e", " ", "t", "o", " ", "a", "n", "a", "l", "y",
    "z", "e", ".">>

GeneralApology ==
  <<"I", " ", "a", "p", "o", "l", "o", "g", "i", "z", "e", ",", " ", "b",
    "u", "t", " ", "I", " ", "c", "o", "u", "l", "d", "n", "'", "t", " ",
    "g", "e", "n", "e", "r", "a", "t", "e", " ", "a", " ", "r", "e", "s",
    "p", "o", "n", "s", "e", ".", " ", "P", "l", "e", "a", "s", "e", " ",
    "t", "r", "y", " ", "a", "g", "a", "i", "n", ".">>

PropertyDetailsPrefix ==
  <<"I", " ", "r", "e", "t", "r", "i", "e", "v", "e", "d", " ", "t", "h",
    "e", " ", "p", "r", "o", "p", "e", "r", "t", "y", " ", "i", "n", "f",
    "o", "r", "m", "a", "t", "i", "o", "n", " ", "s", "u", "c", "c", "e",
    "s", "s", "f", "u", "l", "l", "y", ".", " ", "H", "e", "r", "e", " ",
    "a", "r", "e", " ", "t", "h", "e", " ", "d", "e", "t", "a", "i", "l",
    "s", ":", " ">>

PropertyApology ==
  <<"I", " ", "a", "p", "o", "l", "o", "g", "i", "z", "e", ",", " ", "b",
    "u", "t", " ", "I", " ", "c", "o", "u", "l", "d", "n", "'", "t", " ",
    "g", "e", "n", "e", "r", "a", "t", "e", " ", "a", " ", "r", "e", "s",
    "p", "o", "n", "s", "e", " ", "a", "b", "o", "u", "t", " ", "t", "h",
    "e", " ", "p", "r", "o", "p", "e", "r", "t", "y", ".", " ", "P", "l",
    "e", "a", "s", "e", " ", "t", "r", "y", " ", "a", "g", "a", "i", "n",
    ".">>

FoundDataFrom ==
  <<"I", " ", "f", "o", "u", "n", "d", " ", "d", "a", "t", "a", " ", "f",
    "r", "o", "m", " ", "y", "o", "u", "r", " ">>

OutcomeSentenceEnd ==
  <<" ", "o", "u", "t", "c", "o", "m", "e", ".", " ">>

PleaseLetMeKnow ==
  <<"P", "l", "e", "a", "s", "e", " ", "l", "e", "t", " ", "m", "e", " ",
    "k", "n", "o", "w", " ", "w", "h", "a", "t", " ", "s", "p", "e", "c",
    "i", "f", "i", "c", " ", "a", "n", "a", "l", "y", "s", "i", "s", " ",
    "y", "o", "u", " ", "n", "e", "e", "d", ".">>

WorkspaceSummary ==
  <<"I", " ", "s", "u", "c", "c", "e", "s", "s", "f", "u", "l", "l", "y",
    " ", "r", "e", "t", "r", "i", "e", "v", "e", "d", " ", "t", "h", "e",
    " ", "d", "a", "t", "a", " ", "f", "r", "o", "m", " ", "y", "o", "u",
    "r", " ", "w", "o", "r", "k", "s", "p", "a", "c", "e", ".", " ", "T",
    "h", "e", " ", "q", "u", "e", "r", "y", " ", "r", "e", "t", "u", "r",
    "n", "e", "d", " ", "r", "e", "s", "u", "l", "t", "s", ",", " ", "b",
    "u", "t", " ", "I", " ", "n", "e", "e", "d", " ", "m", "o", "r", "e",
    " ", "s", "p", "e", "c", "i", "f", "i", "c", " ", "i", "n", "s", "t",
    "r", "u", "c", "t", "i", "o", "n", "s", " ", "o", "n", " ", "w", "h",
    "a", "t", " ", "a", "n", "a", "l", "y", "s", "i", "s", " ", "o", "r",
    " ", "i", "n", "s", "i", "g", "h", "t", "s", " ", "y", "o", "u", " ",
    "n", "e", "e", "d", " ", "f", "r", "o", "m", " ", "t", "h", "i", "s",
    " ", "d", "a", "t", "a", ".">>

\* the last branch of each loop: the business loop ends like the general one
Apology(agent) == IF agent = "real_estate" THEN PropertyApology ELSE GeneralApology

\* parts.join('\n')
RECURSIVE JoinLines(_)
JoinLines(parts) ==
  IF parts = <<>> THEN <<>>
  ELSE IF Len(parts) = 1 THEN parts[1]
  ELSE parts[1] \o <<NL>> \o JoinLines(Tail(parts))

Truthy(text) == text # <<>>

\* (output_text || '').trim(), then the text parts of the message items
ModelText(response) ==
  LET flat == Trim(response.output_text)
  IN IF flat # <<>> THEN flat
     ELSE Trim(JoinLines(SelectSeq(response.parts, Truthy)))

\* JSON.stringify of an object result: its fields between braces
Stringify(result) ==
  <<"{">> \o (IF result.hasMessage THEN <<"\"", "m", "\"", ":", "\"">> \o result.message \o <<"\"">>
              ELSE <<>>)
          \o (IF result.data = "text" THEN <<"\"", "d", "\"", ":", "\"">> \o result.dataText \o <<"\"">>
              ELSE IF result.data = "rows" THEN <<"\"", "d", "\"", ":", "[", "{", "}", "]">>
              ELSE <<>>)
          \o <<"}">>

\* `${lastToolResult.data}` of a list of records
RowsAsText == <<"[", "o", "b", "j", "e", "c", "t", " ", "O", "b", "j", "e", "c", "t", "]">>

\* the branch taken when no model text exists and lastToolResult is truthy;
\* results carry no tables field, so the sentence naming tables is left out
ToolText(agent, result) ==
  CASE agent = "general" ->
         IF result.type = "string" /\ Len(result.text) < SummaryCeiling
           THEN Substring(result.text, 0, SummaryCeiling)
         ELSE IF result.type = "object" /\ result.hasMessage /\ Truthy(result.message)
                 /\ Len(result.message) < SummaryCeiling
           THEN result.message
         ELSE GeneralSummary
    [] agent = "real_estate" ->
         IF result.type = "string" THEN result.text
         ELSE IF result.hasMessage /\ Truthy(result.message) THEN result.message
         ELSE PropertyDetailsPrefix \o Stringify(result)
    [] agent = "business" ->
         IF result.type = "string" THEN result.text
         ELSE IF result.hasMessage /\ Truthy(result.message) THEN result.message
         ELSE IF result.data = "text" /\ Truthy(result.dataText) THEN result.dataText
         ELSE IF result.hasOutcome
           THEN FoundDataFrom \o result.outcome \o OutcomeSentenceEnd
                  \o (IF result.data = "rows" THEN <<NL, NL>> \o RowsAsText
                      ELSE PleaseLetMeKnow)
         ELSE WorkspaceSummary

extractFinalText(agent, response, result) ==
  LET modelText == ModelText(response)
      truthy == result.type = "object" \/ (result.type = "string" /\ Truthy(result.text))
      finalText == IF modelText = <<>> /\ truthy THEN ToolText(agent, result)
                   ELSE modelText
  IN IF finalText = <<>> THEN Apology(agent) ELSE finalText

\* inputs of the extraction
FlatTexts == {<<>>, <<SP>>, <<"H", "i", SP>>}

PartLists == {<<>>, <<<<SP>>>>, <<<<>>, <<"a">>, <<SP, "b">>>>}

ExtractResponses == [output_text : FlatTexts, parts : PartLists]

ResultTexts == {<<>>, <<SP>>, <<"o", "k">>, Rep("x", SummaryCeiling)}

NoToolResult ==
  [type |-> "null", text |-> <<>>, hasMessage |-> FALSE, message |-> <<>>,
   data |-> "absent", dataText |-> <<>>, hasOutcome |-> FALSE, outcome |-> <<>>]

StringResults == {[NoToolResult EXCEPT !.type = "string", !.text = text] : text \in ResultTexts}

ObjectResults ==
  {[NoToolResult EXCEPT !.type = "object", !.hasMessage = TRUE, !.message = message]
     : message \in ResultTexts}
  \cup {[NoToolResult EXCEPT !.type = "object", !.data = "text", !.dataText = text,
                             !.hasOutcome = hasOutcome,
                             !.outcome = IF hasOutcome THEN <<"S", "a", "l", "e", "s">> ELSE <<>>]
          : text \in {<<>>, <<SP>>, <<"r", "o", "w">>}, hasOutcome \in BOOLEAN}
  \cup {[NoToolResult EXCEPT !.type = "object", !.data = data, !.hasOutcome = hasOutcome,
                             !.outcome = IF hasOutcome THEN <<"S", "a", "l", "e", "s">> ELSE <<>>]
          : data \in {"absent", "rows"}, hasOutcome \in BOOLEAN}

ExtractResults == {NoToolResult} \cup StringResults \cup ObjectResults

VARIABLES eAgent, eResponse, eResult, eContent, ePc

extractVars == <<eAgent, eResponse, eResult, eContent, ePc>>

ExtractIdle ==
  /\ eAgent = "none" /\ eResponse = [output_text |-> <<>>, parts |-> <<>>]
  /\ eResult = NoToolResult /\ eContent = <<>> /\ ePc = "idle"

(***************************************************************************)
(* withTimeout of utils/timeout.js: the wrapped promise, the timer, the    *)
(* race of both and the jobs of the microtask queue.                       *)
(***************************************************************************)
MaxTimeoutMs == 3
MaxClock == MaxTimeoutMs + 1

Settlements == {"value", "error"}

\* clearTimeout(timeoutId): a pending timer is removed, a fired one is gone
clearTimeoutLeavesTimer(timer) == timer
clearTimeout(timer) == IF timer = "pending" THEN "cleared" ELSE timer

\* what `await Promise.race([promise, timeoutPromise])` delivers
RaceOutcome(race) == IF race = "timeout" THEN "TimeoutError" ELSE race

VARIABLES
  wMs,        \* timeoutMs
  wPc,        \* position in withTimeout
  wCall,      \* state of the wrapped promise
  wTimer,     \* state of the timer behind timeoutId
  wRace,      \* state of the promise of Promise.race
  wOutcome,   \* how the promise returned by withTimeout settled
  wJobs,      \* microtask queue
  wNow,       \* milliseconds since the call of withTimeout
  wEvents     \* history: settlement of the wrapped promise and firing of the timer, in order

timeoutVars == <<wMs, wPc, wCall, wTimer, wRace, wOutcome, wJobs, wNow, wEvents>>

TimeoutIdle ==
  /\ wMs = 0 /\ wPc = "idle" /\ wCall = "pending" /\ wTimer = "unset"
  /\ wRace = "pending" /\ wOutcome = "pending" /\ wJobs = <<>> /\ wNow = 0
  /\ wEvents = <<>>

(***************************************************************************)
(* SMSToolExecutor.execute and its handlers (tools/sms/executor.js), run   *)
(* for one tool call of a processing cycle of one sender.                  *)
(***************************************************************************)
ContextTools ==
  {"get_user_outcomes_sms", "get_data_tables_sms", "get_table_data_sms",
   "get_chat_history_sms"}

ProviderTools ==
  {"attom_property_detail_sms", "attom_assessment_sms", "attom_avm_sms",
   "attom_sales_history_sms", "attom_market_trends_sms",
   "smart_property_search_sms", "rentcast_property_details_sms",
   "rentcast_rent_estimate_sms", "web_search_sms"}

ExecutorTools ==
  {"lookup_outcome_user_sms", "smart_data_query_sms"} \cup ContextTools
    \cup ProviderTools

\* a name the switch of execute has no case for
UnknownTool == "unknown_tool"

\* the arguments the reasoning result supplies: a phone number and a query
NoPhone == "absent"

ExecutorArguments == [phoneNumber : Identities \cup {NoPhone}, hasQuery : BOOLEAN]

\* userContext handed to execute: null or the stored context of the sender
NoContext == "null"

ContextOf(sender) == sender

\* shapes of the payloads execute returns
ErrorAndMessage == [raised |-> FALSE, hasError |-> TRUE, hasMessage |-> TRUE]
ErrorOnly == [raised |-> FALSE, hasError |-> TRUE, hasMessage |-> FALSE]
MessageOnly == [raised |-> FALSE, hasError |-> FALSE, hasMessage |-> TRUE]
DataOnly == [raised |-> FALSE, hasError |-> FALSE, hasMessage |-> FALSE]
NoPayload == [raised |-> FALSE, hasError |-> FALSE, hasMessage |-> FALSE]

\* what a provider client settles with: a payload of one of the shapes, or
\* a rejection
ProviderOutcomes == {"data", "message", "error_only", "error_and_message", "throws"}

\* a handler that returns the client's payload as it is, and its own
\* error object from the catch
PassedThrough(outcome) ==
  CASE outcome = "data" -> DataOnly
    [] outcome = "message" -> MessageOnly
    [] outcome = "error_only" -> ErrorOnly
    [] outcome = "error_and_message" -> ErrorAndMessage
    [] OTHER -> ErrorOnly

\* lookupUserByPhone(phoneNumber) of the handler: the phone number of the
\* arguments
LookupPhone(sender, arguments) == arguments.phoneNumber

VARIABLES
  xSender,     \* the sender whose cycle runs the tool
  xContext,    \* userContext argument of execute
  xTool,       \* toolName
  xArguments,  \* parameters
  xPc,         \* position in execute and the handler
  xRequests,   \* requests sent to the Outcome provider, in order
  xReads,      \* conversation keys read by the handler
  xSession,    \* this.currentUserSession
  xPayload     \* what execute returned

executorVars == <<xSender, xContext, xTool, xArguments, xPc, xRequests, xReads,
                  xSession, xPayload>>

ExecutorIdle ==
  /\ xSender = "" /\ xContext = NoContext /\ xTool = "" 
  /\ xArguments = [phoneNumber |-> NoPhone, hasQuery |-> FALSE]
  /\ xPc = "idle" /\ xRequests = <<>> /\ xReads = <<>> /\ xSession = "null"
  /\ xPayload = NoPayload

(***************************************************************************)
(* The tool catalogs of the specialists (ToolRegistry of web-tools.js),    *)
(* for the registered names a reasoning result of the loop may carry.      *)
(***************************************************************************)
RegisteredNameText ==
  "smart_data_query_sms" :> <<"s", "m", "a", "r", "t", "_", "d", "a", "t", "a", "_", "q", "u", "e",
  "r", "y", "_", "s", "m", "s">>
  @@ "smart_property_search_sms" :> <<"s", "m", "a", "r", "t", "_", "p", "r", "o", "p", "e", "r", "t", "y",
  "_", "s", "e", "a", "r", "c", "h", "_", "s", "m", "s">>

\* getSMSToolsByCategory(category): the filter on tool.name
InCategory(category, name) ==
  CASE category = "outcome" -> Includes(name, <<"o", "u", "t", "c", "o", "m", "e">>) \/ Includes(name, <<"s", "m", "a", "r", "t", "_", "d", "a", "t", "a">>)
    [] category = "property" -> Includes(name, <<"a", "t", "t", "o", "m">>) \/ Includes(name, <<"p", "r", "o", "p", "e", "r", "t", "y">>)
    [] category = "rental" -> Includes(name, <<"r", "e", "n", "t", "c", "a", "s", "t">>)
    [] category = "web" -> Includes(name, <<"w", "e", "b">>)
    [] OTHER -> TRUE

\* getBusinessTools, getRealEstateTools and getGeneralTools
CatalogOf(agent) ==
  {name \in DOMAIN RegisteredNameText :
     CASE agent = "business" -> InCategory("outcome", RegisteredNameText[name])
       [] agent = "real_estate" -> \/ InCategory("property", RegisteredNameText[name])
                                   \/ InCategory("rental", RegisteredNameText[name])
       [] OTHER -> InCategory("web", RegisteredNameText[name])}

(***************************************************************************)
(* A second loop run in progress at the same time: its locals, while the   *)
(* other run is the one executing.                                         *)
(***************************************************************************)
VARIABLES
  suspended   \* the locals of the run that waits at an await

runsVars == <<suspended>>

\* the locals of a run that has not begun
NoRun ==
  [lAgent |-> "general", lPc |-> "idle", lMessage |-> <<>>,
   currentResponse |-> NoResponse, iterations |-> 0, successfulTools |-> {},
   failedAttempts |-> Zero, allToolResults |-> <<>>, lastToolResult |-> "null",
   toolsExecutedThisIteration |-> FALSE, callIdx |-> 0, toolsOffered |-> FALSE,
   lContent |-> "none", lExit |-> "none", requests |-> 0, failures |-> Zero,
   lTrace |-> "none"]

RunsIdle == suspended = NoRun


(***************************************************************************)
(* The other entries EnhancedConversationMemory keeps per identity          *)
(***************************************************************************)
VARIABLES
  pendingTask,  \* per identity: the cache entry pending_task:<phone>
  missingData   \* per identity: the cache entry missing_data:<phone>

memoryVars == <<pendingTask, missingData>>

PendingTaskTTL == 7200

\* the values of these entries while they are not modelled
MemoryIdle ==
  /\ pendingTask = [id \in Identities |-> NoEntry]
  /\ missingData = [id \in Identities |-> NoEntry]


nonLoopVars == <<chunkVars, storeVars, routeVars, cycleVars, searchVars, extractVars, timeoutVars, executorVars, runsVars, memoryVars>>

vars == <<loopVars, chunkVars, storeVars, routeVars, cycleVars, searchVars, extractVars, timeoutVars, executorVars, runsVars, memoryVars>>

(***************************************************************************)
(* The tool loop, one action per stretch of code between two awaits        *)
(***************************************************************************)
Bump(f, n) == [f EXCEPT ![n] = @ + 1]

\* process(): the first reasoning request resolves with a result
LoopBegin(response) ==
  /\ lPc = "start"
  /\ currentResponse' = response
  /\ requests' = requests + 1
  /\ toolsOffered' = TRUE
  /\ lPc' = "while"
  /\ UNCHANGED <<lAgent, lMessage, iterations, successfulTools, failedAttempts,
                 allToolResults, lastToolResult, toolsExecutedThisIteration,
                 callIdx, lContent, lExit, failures, lTrace>>
  /\ UNCHANGED nonLoopVars

\* a reasoning request rejects.  The first request is awaited outside every
\* try, so process() rejects with the error.  The follow-up request is
\* awaited inside the try of the tool execution: its rejection is caught as a
\* failure of the tool just executed, which SubAgent counts before it goes on
\* with the next function call of the result it was inspecting, and which
\* ends the business and real-estate loops with their apology.
ReasonFails ==
  /\ lPc \in {"start", "reason"}
  /\ requests' = requests + 1
  /\ IF lPc = "start"
     THEN /\ lPc' = "threw" /\ lExit' = "reason_error"
          /\ UNCHANGED <<failedAttempts, callIdx, lContent, lTrace>>
     ELSE IF lAgent = "general"
     THEN /\ failedAttempts' = Bump(failedAttempts, currentResponse.calls[callIdx].name)
          /\ callIdx' = callIdx + 1
          /\ lPc' = "for"
          /\ lTrace' = "request_threw"
          /\ UNCHANGED <<lContent, lExit>>
     ELSE /\ lPc' = "done"
          /\ lContent' = "tool_error_apology"
          /\ lExit' = "tool_error"
          /\ lTrace' = "request_threw"
          /\ UNCHANGED <<failedAttempts, callIdx>>
  /\ UNCHANGED <<lAgent, lMessage, currentResponse, iterations, successfulTools,
                 allToolResults, lastToolResult, toolsExecutedThisIteration,
                 toolsOffered, failures>>
  /\ UNCHANGED nonLoopVars

\* the head of the while loop up to the for loop
WhileHead ==
  /\ lPc = "while"
  /\ IF LoopGuard(iterations)
     THEN /\ iterations' = iterations + 1
          /\ IF Len(currentResponse.calls) = 0
             THEN /\ lPc' = "final" /\ lExit' = "no_calls"
                  /\ UNCHANGED <<callIdx, toolsExecutedThisIteration>>
             ELSE /\ lPc' = "for" /\ callIdx' = 1
                  /\ toolsExecutedThisIteration' = FALSE
                  /\ UNCHANGED lExit
     ELSE /\ lPc' = "final" /\ lExit' = "bound"
          /\ UNCHANGED <<iterations, callIdx, toolsExecutedThisIteration>>
  /\ lTrace' = "none"
  /\ UNCHANGED <<lAgent, lMessage, currentResponse, successfulTools, failedAttempts,
                 allToolResults, lastToolResult, toolsOffered, lContent,
                 requests, failures>>
  /\ UNCHANGED nonLoopVars

\* one pass of the for loop body up to the call of toolExecutor
ForStep ==
  /\ lPc = "for"
  /\ callIdx <= Len(currentResponse.calls)
  /\ LET call == currentResponse.calls[callIdx]
         name == call.name
         failedCount == failedAttempts[name]
     IN IF AlreadySucceeded(name, successfulTools)
        THEN /\ callIdx' = callIdx + 1
             /\ lTrace' = "skip_duplicate"
             /\ UNCHANGED <<lPc, lExit, failedAttempts, failures>>
        ELSE IF lAgent = "general"
        THEN IF FailureCeiling(failedCount)
             THEN /\ callIdx' = callIdx + 1
                  /\ lTrace' = "skip_ceiling"
                  /\ UNCHANGED <<lPc, lExit, failedAttempts, failures>>
             ELSE IF call.arguments = "bad"
             THEN /\ failedAttempts' = Bump(failedAttempts, name)
                  /\ failures' = Bump(failures, name)
                  /\ callIdx' = callIdx + 1
                  /\ lTrace' = "parse_failed"
                  /\ UNCHANGED <<lPc, lExit>>
             ELSE IF /\ call.arguments = "empty"
                     /\ ~extractFallbackParameters(name, lMessage)
             THEN /\ failedAttempts' = Bump(failedAttempts, name)
                  /\ failures' = Bump(failures, name)
                  /\ callIdx' = callIdx + 1
                  /\ lTrace' = "fallback_failed"
                  /\ UNCHANGED <<lPc, lExit>>
             ELSE /\ lPc' = "exec"
                  /\ lTrace' = IF call.arguments = "empty" THEN "execute_fallback"
                                                           ELSE "execute"
                  /\ UNCHANGED <<callIdx, lExit, failedAttempts, failures>>
        ELSE IF call.arguments = "bad"
             THEN \* JSON.parse throws outside the try: handleToolCalls rejects
                  /\ lPc' = "threw"
                  /\ lExit' = "parse_error"
                  /\ failures' = Bump(failures, name)
                  /\ lTrace' = "parse_failed"
                  /\ UNCHANGED <<callIdx, failedAttempts>>
             ELSE /\ lPc' = "exec"
                  /\ lTrace' = IF call.arguments = "empty" THEN "execute_empty"
                                                           ELSE "execute"
                  /\ UNCHANGED <<callIdx, lExit, failedAttempts, failures>>
  /\ UNCHANGED <<lAgent, lMessage, currentResponse, iterations, successfulTools,
                 allToolResults, lastToolResult, toolsExecutedThisIteration,
                 toolsOffered, lContent, requests>>
  /\ UNCHANGED nonLoopVars

\* toolExecutor resolves: the result is recorded and the next request is built
ToolReturnsWithoutRequest(result) ==
  /\ lPc = "exec"
  /\ LET name == currentResponse.calls[callIdx].name
         done == successfulTools \cup {name}
     IN /\ successfulTools' = done
        /\ allToolResults' = Append(allToolResults, name)
        /\ lastToolResult' = result
        /\ toolsExecutedThisIteration' = TRUE
        /\ toolsOffered' = ~shouldDisableTools(lAgent, done, iterations)
  /\ lPc' = "for"
  /\ callIdx' = callIdx + 1
  /\ lTrace' = "executed"
  /\ UNCHANGED <<lAgent, lMessage, currentResponse, iterations,
                 failedAttempts, lContent, lExit, requests, failures>>
  /\ UNCHANGED nonLoopVars
ToolReturns(result) ==
  /\ lPc = "exec"
  /\ LET name == currentResponse.calls[callIdx].name
         done == successfulTools \cup {name}
     IN /\ successfulTools' = done
        /\ allToolResults' = Append(allToolResults, name)
        /\ lastToolResult' = result
        /\ toolsExecutedThisIteration' = TRUE
        /\ toolsOffered' = ~shouldDisableTools(lAgent, done, iterations)
  /\ lPc' = "reason"
  /\ lTrace' = "executed"
  /\ UNCHANGED <<lAgent, lMessage, currentResponse, callIdx, iterations,
                 failedAttempts, lContent, lExit, requests, failures>>
  /\ UNCHANGED nonLoopVars

\* toolExecutor rejects
ToolThrowsContinuesEverywhere ==
  /\ lPc = "exec"
  /\ LET name == currentResponse.calls[callIdx].name
     IN /\ failures' = Bump(failures, name)
        /\ IF lAgent \in Agents
           THEN /\ failedAttempts' = Bump(failedAttempts, name)
                /\ callIdx' = callIdx + 1
                /\ lPc' = "for"
                /\ UNCHANGED <<lContent, lExit>>
           ELSE /\ lPc' = "done"
                /\ lContent' = "tool_error_apology"
                /\ lExit' = "tool_error"
                /\ UNCHANGED <<failedAttempts, callIdx>>
  /\ lTrace' = "tool_threw"
  /\ UNCHANGED <<lAgent, lMessage, currentResponse, iterations, successfulTools,
                 allToolResults, lastToolResult, toolsExecutedThisIteration,
                 toolsOffered, requests>>
  /\ UNCHANGED nonLoopVars
ToolThrows ==
  /\ lPc = "exec"
  /\ LET name == currentResponse.calls[callIdx].name
     IN /\ failures' = Bump(failures, name)
        /\ IF lAgent = "general"
           THEN /\ failedAttempts' = Bump(failedAttempts, name)
                /\ callIdx' = callIdx + 1
                /\ lPc' = "for"
                /\ UNCHANGED <<lContent, lExit>>
           ELSE /\ lPc' = "done"
                /\ lContent' = "tool_error_apology"
                /\ lExit' = "tool_error"
                /\ UNCHANGED <<failedAttempts, callIdx>>
  /\ lTrace' = "tool_threw"
  /\ UNCHANGED <<lAgent, lMessage, currentResponse, iterations, successfulTools,
                 allToolResults, lastToolResult, toolsExecutedThisIteration,
                 toolsOffered, requests>>
  /\ UNCHANGED nonLoopVars

\* the follow-up reasoning request resolves; break out of the for loop
ReasonReturns(response) ==
  /\ lPc = "reason"
  /\ currentResponse' = response
  /\ requests' = requests + 1
  \* the break leaves the for loop: its index is not read again
  /\ callIdx' = 0
  /\ lPc' = "after_for"
  /\ UNCHANGED <<lAgent, lMessage, iterations, successfulTools, failedAttempts,
                 allToolResults, lastToolResult, toolsExecutedThisIteration,
                 toolsOffered, lContent, lExit, failures, lTrace>>
  /\ UNCHANGED nonLoopVars

\* the for loop ran out of function calls
ForEnd ==
  /\ lPc = "for"
  /\ callIdx > Len(currentResponse.calls)
  /\ lPc' = "after_for"
  /\ UNCHANGED <<lAgent, lMessage, currentResponse, iterations, successfulTools,
                 failedAttempts, allToolResults, lastToolResult,
                 toolsExecutedThisIteration, callIdx, toolsOffered, lContent, lExit,
                 requests, failures, lTrace>>
  /\ UNCHANGED nonLoopVars

\* after the for loop: the no-new-tool break of SubAgent and BusinessAgent;
\* RealEstateAgent goes straight back to the loop head
AfterFor ==
  /\ lPc = "after_for"
  /\ IF lAgent \in {"general", "business"} /\ ~toolsExecutedThisIteration
     THEN lPc' = "final" /\ lExit' = "no_new_tool"
     ELSE lPc' = "while" /\ UNCHANGED lExit
  /\ UNCHANGED <<lAgent, lMessage, currentResponse, iterations, successfulTools,
                 failedAttempts, allToolResults, lastToolResult,
                 toolsExecutedThisIteration, callIdx, toolsOffered, lContent,
                 requests, failures, lTrace>>
  /\ UNCHANGED nonLoopVars

\* final text extraction and return
Finalize ==
  /\ lPc = "final"
  /\ lContent' = FinalText(lAgent, currentResponse, lastToolResult)
  /\ lPc' = "done"
  /\ UNCHANGED <<lAgent, lMessage, currentResponse, iterations, successfulTools,
                 failedAttempts, allToolResults, lastToolResult,
                 toolsExecutedThisIteration, callIdx, toolsOffered, lExit,
                 requests, failures, lTrace>>
  /\ UNCHANGED nonLoopVars

LoopInit ==
  /\ lAgent \in Agents /\ lPc = "start" /\ lMessage \in UserMessages
  /\ currentResponse = NoResponse /\ iterations = 0 /\ successfulTools = {}
  /\ failedAttempts = Zero /\ allToolResults = <<>> /\ lastToolResult = "null"
  /\ toolsExecutedThisIteration = FALSE /\ callIdx = 0 /\ toolsOffered = FALSE
  /\ lContent = "none" /\ lExit = "none" /\ requests = 0
  /\ failures = Zero /\ lTrace = "none"
  /\ ChunkIdle /\ StoreIdle /\ RouteIdle /\ CycleIdle /\ SearchIdle /\ ExtractIdle /\ TimeoutIdle /\ ExecutorIdle /\ RunsIdle /\ MemoryIdle

LoopNext ==
  \/ \E response \in Responses : LoopBegin(response)
  \/ ReasonFails
  \/ WhileHead
  \/ ForStep
  \/ \E result \in ToolResults : ToolReturns(result)
  \/ ToolThrows
  \/ \E response \in Responses : ReasonReturns(response)
  \/ ForEnd
  \/ AfterFor
  \/ Finalize

SpecLoop == LoopInit /\ [][LoopNext]_vars

(***************************************************************************)
(* Runs of the loop on one reasoning result that requests many tools: the  *)
(* executor returns for every name, the follow-up requests may reject, and *)
(* a follow-up result carries no further calls                             *)
(***************************************************************************)
BurstLength == 12

\* the names of the switch of SMSToolExecutor.execute, in its order
ExecutorToolOrder ==
  <<"lookup_outcome_user_sms", "smart_data_query_sms", "get_user_outcomes_sms",
    "get_data_tables_sms", "get_table_data_sms", "get_chat_history_sms",
    "attom_property_detail_sms", "attom_assessment_sms", "attom_avm_sms",
    "attom_sales_history_sms", "attom_market_trends_sms",
    "smart_property_search_sms", "rentcast_property_details_sms",
    "rentcast_rent_estimate_sms", "web_search_sms">>

BurstNames == {ExecutorToolOrder[i] : i \in 1..Len(ExecutorToolOrder)} \cup ToolNames

BurstResponse ==
  [calls |-> [i \in 1..BurstLength |->
                [name |-> ExecutorToolOrder[i], arguments |-> "valid"]],
   text |-> "none"]

BurstInit ==
  /\ lAgent \in Agents /\ lPc = "start" /\ lMessage \in UserMessages
  /\ currentResponse = NoResponse /\ iterations = 0 /\ successfulTools = {}
  /\ failedAttempts = [n \in BurstNames |-> 0] /\ allToolResults = <<>>
  /\ lastToolResult = "null"
  /\ toolsExecutedThisIteration = FALSE /\ callIdx = 0 /\ toolsOffered = FALSE
  /\ lContent = "none" /\ lExit = "none" /\ requests = 0
  /\ failures = [n \in BurstNames |-> 0] /\ lTrace = "none"
  /\ ChunkIdle /\ StoreIdle /\ RouteIdle /\ CycleIdle /\ SearchIdle /\ ExtractIdle /\ TimeoutIdle /\ ExecutorIdle /\ RunsIdle /\ MemoryIdle

BurstNext ==
  \/ LoopBegin(BurstResponse)
  \/ ReasonFails
  \/ WhileHead
  \/ ForStep
  \/ \E result \in ToolResults : ToolReturns(result)
  \/ \E text \in TextKinds : ReasonReturns([calls |-> <<>>, text |-> text])
  \/ ForEnd
  \/ AfterFor
  \/ Finalize

SpecBurst == BurstInit /\ [][BurstNext]_vars

(***************************************************************************)
(* Runs of the loop with a reasoning service that answers a request that   *)
(* carried no tools with a result that has no function call                *)
(***************************************************************************)
ObedientReasonReturns(response) ==
  /\ toolsOffered \/ response.calls = <<>>
  /\ ReasonReturns(response)

ObedientNext ==
  \/ \E response \in Responses : LoopBegin(response)
  \/ ReasonFails
  \/ WhileHead
  \/ ForStep
  \/ \E result \in ToolResults : ToolReturns(result)
  \/ ToolThrows
  \/ \E response \in Responses : ObedientReasonReturns(response)
  \/ ForEnd
  \/ AfterFor
  \/ Finalize

SpecObedient == LoopInit /\ [][ObedientNext]_vars

(***************************************************************************)
(* Two loop runs in progress at the same time, on the same specialist      *)
(* instance or on two.  The loop state is declared with let and const      *)
(* inside process / handleToolCalls, so each call has its own; the steps   *)
(* of the loop are those above, taken by the run that is executing, and    *)
(* the runs change places where the executing one awaits or has returned.  *)
(***************************************************************************)
RunAgents == {"general", "business"}

RunNames == {"smart_data_query_sms", "lookup_tool"}

RunResponses ==
  {[calls |-> <<[name |-> n, arguments |-> "valid"]>>, text |-> "none"] : n \in RunNames}
  \cup {[calls |-> <<>>, text |-> "flat"]}

RunResults == {"short_string", "object_plain"}

\* the locals of the run that is executing
RunState ==
  [lAgent |-> lAgent, lPc |-> lPc, lMessage |-> lMessage,
   currentResponse |-> currentResponse, iterations |-> iterations,
   successfulTools |-> successfulTools, failedAttempts |-> failedAttempts,
   allToolResults |-> allToolResults, lastToolResult |-> lastToolResult,
   toolsExecutedThisIteration |-> toolsExecutedThisIteration,
   callIdx |-> callIdx, toolsOffered |-> toolsOffered, lContent |-> lContent,
   lExit |-> lExit, requests |-> requests, failures |-> failures,
   lTrace |-> lTrace]

AwaitPoints == {"start", "exec", "reason", "done", "threw"}

nonRunVars == <<chunkVars, storeVars, routeVars, cycleVars, searchVars, extractVars, timeoutVars, executorVars, memoryVars>>

\* the event loop resumes the other run: each run finds its locals as it left them
ResumeSharingSuccessfulTools ==
  /\ lPc \in AwaitPoints
  /\ suspended.lPc \notin {"done", "threw"}
  /\ suspended' = RunState
  /\ lAgent' = suspended.lAgent
  /\ lPc' = suspended.lPc
  /\ lMessage' = suspended.lMessage
  /\ currentResponse' = suspended.currentResponse
  /\ iterations' = suspended.iterations
  /\ successfulTools' = successfulTools
  /\ failedAttempts' = suspended.failedAttempts
  /\ allToolResults' = suspended.allToolResults
  /\ lastToolResult' = suspended.lastToolResult
  /\ toolsExecutedThisIteration' = suspended.toolsExecutedThisIteration
  /\ callIdx' = suspended.callIdx
  /\ toolsOffered' = suspended.toolsOffered
  /\ lContent' = suspended.lContent
  /\ lExit' = suspended.lExit
  /\ requests' = suspended.requests
  /\ failures' = suspended.failures
  /\ lTrace' = suspended.lTrace
  /\ UNCHANGED nonRunVars

Resume ==
  /\ lPc \in AwaitPoints
  /\ suspended.lPc \notin {"done", "threw"}
  /\ suspended' = RunState
  /\ lAgent' = suspended.lAgent
  /\ lPc' = suspended.lPc
  /\ lMessage' = suspended.lMessage
  /\ currentResponse' = suspended.currentResponse
  /\ iterations' = suspended.iterations
  /\ successfulTools' = suspended.successfulTools
  /\ failedAttempts' = suspended.failedAttempts
  /\ allToolResults' = suspended.allToolResults
  /\ lastToolResult' = suspended.lastToolResult
  /\ toolsExecutedThisIteration' = suspended.toolsExecutedThisIteration
  /\ callIdx' = suspended.callIdx
  /\ toolsOffered' = suspended.toolsOffered
  /\ lContent' = suspended.lContent
  /\ lExit' = suspended.lExit
  /\ requests' = suspended.requests
  /\ failures' = suspended.failures
  /\ lTrace' = suspended.lTrace
  /\ UNCHANGED nonRunVars

RunsInit ==
  /\ lAgent \in RunAgents /\ lPc = "start" /\ lMessage = <<"what", "can", "you", "do">>
  /\ currentResponse = NoResponse /\ iterations = 0 /\ successfulTools = {}
  /\ failedAttempts = Zero /\ allToolResults = <<>> /\ lastToolResult = "null"
  /\ toolsExecutedThisIteration = FALSE /\ callIdx = 0 /\ toolsOffered = FALSE
  /\ lContent = "none" /\ lExit = "none" /\ requests = 0
  /\ failures = Zero /\ lTrace = "none"
  /\ \E agent \in RunAgents :
        suspended = [NoRun EXCEPT !.lAgent = agent, !.lPc = "start",
                                  !.lMessage = <<"what", "can", "you", "do">>]
  /\ ChunkIdle /\ StoreIdle /\ RouteIdle /\ CycleIdle /\ SearchIdle /\ ExtractIdle /\ TimeoutIdle /\ ExecutorIdle /\ MemoryIdle

RunsNext ==
  \/ \E response \in RunResponses : LoopBegin(response)
  \/ ReasonFails
  \/ WhileHead
  \/ ForStep
  \/ \E result \in RunResults : ToolReturns(result)
  \/ ToolThrows
  \/ \E response \in RunResponses : ReasonReturns(response)
  \/ ForEnd
  \/ AfterFor
  \/ Finalize
  \/ Resume

SpecRuns == RunsInit /\ [][RunsNext]_vars

(***************************************************************************)
(* Chunking runs: one text is chunked with a limit, or sent with sendSMS   *)
(***************************************************************************)
nonChunkVars == <<loopVars, storeVars, routeVars, cycleVars, searchVars, extractVars, timeoutVars, executorVars, runsVars, memoryVars>>

\* chunkMessage(cText, limit)
ChunkMessageCall(limit) ==
  /\ cPc = "input"
  /\ limit \in LimitsFor(cText)
  /\ cLimit' = limit
  /\ cChunks' = chunkMessage(cText, limit)
  /\ cPc' = "chunked"
  /\ UNCHANGED <<cText, cSent>>
  /\ UNCHANGED nonChunkVars

\* sendSMS(twilioClient, to, cText, fromNumber) with a client
SendSMSCall(failAt) ==
  /\ cPc = "input"
  /\ cLimit' = DefaultMaxLength
  /\ cSent' = sendSMS(TRUE, cText, failAt).handed
  /\ cPc' = "sent"
  /\ UNCHANGED <<cText, cChunks>>
  /\ UNCHANGED nonChunkVars

ChunkInit ==
  /\ cText \in Texts /\ cLimit = 0 /\ cChunks = <<>> /\ cPc = "input" /\ cSent = <<>>
  /\ LoopIdle /\ StoreIdle /\ RouteIdle /\ CycleIdle /\ SearchIdle /\ ExtractIdle /\ TimeoutIdle /\ ExecutorIdle /\ RunsIdle /\ MemoryIdle

ChunkNext ==
  \/ \E limit \in Limits : ChunkMessageCall(limit)
  \/ \E failAt \in 0..MaxFailAt : SendSMSCall(failAt)

SpecChunk == ChunkInit /\ [][ChunkNext]_vars

(***************************************************************************)
(* Store runs: the ConversationMemory operations in any order, with time   *)
(***************************************************************************)
MaxAppends == 52
MaxOtherAppends == 2
MaxNow == 7201

TickSteps == {stdTTL \div 2, stdTTL + 1}
HistoryLimits == {0, 1, DefaultHistoryLimit, RetentionCap + 10}

nonStoreVars == <<loopVars, chunkVars, routeVars, cycleVars, searchVars, extractVars, timeoutVars, executorVars, runsVars, memoryVars>>

\* turns a record may collect: the first identity can pass the retention
\* cap, the other identities stay short
AppendBound(id) == IF id = "+15550001" THEN MaxAppends ELSE MaxOtherAppends

\* the n-th turn of a record: user and assistant turns alternate
TurnOf(n) == [role |-> IF n % 2 = 1 THEN "user" ELSE "assistant", content |-> n]

\* conversationMemory.addMessage(id, role, content)
StoreAddMessage(id) ==
  /\ Len(IF Alive(conv[id], now) THEN appended[id] ELSE <<>>) < AppendBound(id)
  /\ LET began == IF Alive(conv[id], now) THEN appended[id] ELSE <<>>
         message == TurnOf(Len(began) + 1)
     IN /\ conv' = [conv EXCEPT ![id] = addMessage(conv[id], message, now)]
        /\ appended' = [appended EXCEPT ![id] = Append(began, message)]
  /\ sOp' = [NoOp EXCEPT !.op = "add", !.id = id]
  /\ UNCHANGED <<now, ctx>>
  /\ UNCHANGED nonStoreVars

\* conversationMemory.getConversationHistory(id, limit)
StoreGetHistory(id, limit) ==
  /\ sOp' = [op |-> "get", id |-> id, limit |-> limit,
             result |-> getConversationHistory(conv[id], limit, now),
             afterAdd |-> (sOp.op = "add" /\ sOp.id = id)]
  /\ UNCHANGED <<now, conv, ctx, appended>>
  /\ UNCHANGED nonStoreVars

\* conversationMemory.getUserContext(id): cache.get(key) || null
StoreGetUserContext(id) ==
  /\ sOp' = [NoOp EXCEPT !.op = "get_context", !.id = id,
                         !.result = getUserContext(ctx[id], now)]
  /\ UNCHANGED <<now, conv, ctx, appended>>
  /\ UNCHANGED nonStoreVars

\* conversationMemory.setUserContext(id, context)
StoreSetUserContext(id) ==
  /\ ctx' = [ctx EXCEPT ![id] = CacheSet([userId |-> id], stdTTL, now)]
  /\ sOp' = [NoOp EXCEPT !.op = "set_context", !.id = id]
  /\ UNCHANGED <<now, conv, appended>>
  /\ UNCHANGED nonStoreVars

\* conversationMemory.clearConversation(id): cache.del of both keys
StoreClearWithPendingTask(id) ==
  /\ conv' = [conv EXCEPT ![id] = NoEntry]
  /\ ctx' = [ctx EXCEPT ![id] = NoEntry]
  /\ appended' = [appended EXCEPT ![id] = <<>>]
  /\ sOp' = [NoOp EXCEPT !.op = "clear", !.id = id]
  /\ pendingTask' = [pendingTask EXCEPT ![id] = NoEntry]
  /\ UNCHANGED <<now, missingData>>
  /\ UNCHANGED <<loopVars, chunkVars, routeVars, cycleVars, searchVars, extractVars, timeoutVars, executorVars, runsVars>>

StoreClear(id) ==
  /\ conv' = [conv EXCEPT ![id] = NoEntry]
  /\ ctx' = [ctx EXCEPT ![id] = NoEntry]
  /\ appended' = [appended EXCEPT ![id] = <<>>]
  /\ sOp' = [NoOp EXCEPT !.op = "clear", !.id = id]
  /\ UNCHANGED now
  /\ UNCHANGED nonStoreVars

\* time passes
StoreTick(d) ==
  /\ now + d <= MaxNow
  /\ now' = now + d
  /\ sOp' = NoOp
  /\ UNCHANGED <<conv, ctx, appended>>
  /\ UNCHANGED nonStoreVars

StoreInit == StoreIdle /\ LoopIdle /\ ChunkIdle /\ RouteIdle /\ CycleIdle /\ SearchIdle /\ ExtractIdle /\ TimeoutIdle /\ ExecutorIdle /\ RunsIdle /\ MemoryIdle

StoreNext ==
  \/ \E id \in Identities : StoreAddMessage(id)
  \/ \E id \in Identities, limit \in HistoryLimits : StoreGetHistory(id, limit)
  \/ \E id \in Identities : StoreGetUserContext(id)
  \/ \E id \in Identities : StoreSetUserContext(id)
  \/ \E id \in Identities : StoreClear(id)
  \/ \E d \in TickSteps : StoreTick(d)

SpecStore == StoreInit /\ [][StoreNext]_vars

(***************************************************************************)
(* Routing runs: the router extracts its content from one response and the *)
(* processor maps it to an agent                                           *)
(***************************************************************************)
nonRouteVars == <<loopVars, chunkVars, storeVars, cycleVars, searchVars, extractVars, timeoutVars, executorVars, runsVars, memoryVars>>

\* RouterAgent.process after the reasoning request returned
RouterExtracts ==
  /\ rPc = "responded"
  /\ rContent' = RouterContent(rResponse)
  /\ rPc' = "extracted"
  /\ UNCHANGED <<rResponse, rRouting>>
  /\ UNCHANGED nonRouteVars

\* SMSProcessor.process from routeResponse to selectedAgent
ProcessorRoutes ==
  /\ rPc = "extracted"
  /\ rRouting' = RoutingOf(rContent)
  /\ rPc' = "routed"
  /\ UNCHANGED <<rResponse, rContent>>
  /\ UNCHANGED nonRouteVars

RouteInit ==
  /\ rResponse \in RouterResponses /\ rContent = <<>> /\ rRouting = NoRouting
  /\ rPc = "responded"
  /\ LoopIdle /\ ChunkIdle /\ StoreIdle /\ CycleIdle /\ SearchIdle /\ ExtractIdle /\ TimeoutIdle /\ ExecutorIdle /\ RunsIdle /\ MemoryIdle

RouteNext == RouterExtracts \/ ProcessorRoutes

SpecRoute == RouteInit /\ [][RouteNext]_vars

(***************************************************************************)
(* Cycles: deliveries to the webhook, the invocations of process they      *)
(* start, and time.  Every action is one stretch of code between awaits.   *)
(* A delivery without MessageSid is keyed by From, Body and the clock in   *)
(* milliseconds, taken to differ between deliveries.  A sendSMS call is    *)
(* one step, at the moment it settles.                                     *)
(***************************************************************************)
MaxCycleNow == 601
CycleTicks == {IdempotencyTTL, IdempotencyTTL + 1}

nonCycleVars == <<loopVars, chunkVars, routeVars, appended, sOp, searchVars, extractVars, timeoutVars, executorVars, runsVars, memoryVars>>

\* the frame of the steps that append a turn
nonTurnVars == <<loopVars, chunkVars, routeVars, sOp, searchVars, extractVars, timeoutVars, executorVars, runsVars, memoryVars>>

\* history: the turns appended to a record since it began, with one more
Appended(turns, entry, message, time) ==
  Append(IF Alive(entry, time) THEN turns ELSE <<>>, message)

\* the HTTP response of the handler to one delivery
ResponseOf(sid, body, forbidden, from) ==
  IF forbidden THEN "forbidden"
  ELSE IF Len(body) = 0 THEN "bad_request"
  ELSE IF sid # NoSid /\ IsDuplicate(idem[sid], now) THEN "duplicate"
  ELSE IF KeywordOf(body) = "stop" THEN "unsubscribed"
  ELSE IF KeywordOf(body) = "start" THEN "subscribed"
  ELSE IF KeywordOf(body) = "help" THEN "help"
  ELSE IF Alive(optOut[from], now) THEN "opted_out"
  ELSE "accepted"

\* POST /sms: the whole handler; forbidden: production with a bad signature
Deliver(sid, raw, body, forbidden) ==
  /\ Len(log) < MaxDeliveries
  /\ LET from == fromNumber(raw)
         response == ResponseOf(sid, body, forbidden, from)
         d == Len(log) + 1
         marked == response \notin {"forbidden", "bad_request", "duplicate"}
     IN /\ log' = Append(log, [sid |-> sid, time |-> now, response |-> response])
        /\ idem' = IF marked /\ sid # NoSid
                   THEN [idem EXCEPT ![sid] = CacheSet(TRUE, IdempotencyTTL, now)]
                   ELSE idem
        /\ optOut' = IF response = "unsubscribed"
                     THEN [optOut EXCEPT ![from] = CacheSet(TRUE, OptOutTTL, now)]
                     ELSE IF response = "subscribed"
                     THEN [optOut EXCEPT ![from] = NoEntry]
                     ELSE optOut
        /\ IF response = "accepted"
           THEN /\ immediates' = Append(immediates, d)
                /\ procs' = [procs EXCEPT ![d] =
                               [NoProcess EXCEPT !.pc = "queued", !.from = from,
                                                 !.body = body]]
           ELSE UNCHANGED <<immediates, procs>>
  /\ UNCHANGED <<now, conv, ctx>>
  /\ UNCHANGED nonCycleVars

\* the user turn process stores first
UserTurn(body) == [role |-> "user", content |-> body]

\* the setImmediate callback: process up to its first await
StartProcess ==
  /\ Len(immediates) > 0
  /\ LET d == Head(immediates)
         from == procs[d].from
         stored == addMessage(conv[from], UserTurn(procs[d].body), now)
         userContext == Alive(ctx[from], now)
     IN /\ conv' = [conv EXCEPT ![from] = stored]
        /\ appended' = [appended EXCEPT ![from] =
                          Appended(@, conv[from], UserTurn(procs[d].body), now)]
        /\ procs' = [procs EXCEPT ![d] =
             IF userContext
             THEN [@ EXCEPT !.pc = "interim", !.userContext = TRUE,
                     !.history = getConversationHistory(stored, HistoryForProcess, now)]
             ELSE [@ EXCEPT !.pc = "lookup"]]
  /\ immediates' = Tail(immediates)
  /\ UNCHANGED <<now, ctx, idem, optOut, log>>
  /\ UNCHANGED nonTurnVars

\* lookupUserByPhone settles: with a user, with null, or by throwing
LookupSettles(d, outcome) ==
  /\ procs[d].pc = "lookup"
  /\ LET from == procs[d].from
     IN /\ ctx' = IF outcome = "user"
                  THEN [ctx EXCEPT ![from] = CacheSet([userId |-> from], stdTTL, now)]
                  ELSE ctx
        /\ procs' = [procs EXCEPT ![d] =
             [@ EXCEPT !.pc = "interim", !.userContext = (outcome = "user"),
                !.history = getConversationHistory(conv[from], HistoryForProcess, now)]]
  /\ UNCHANGED <<now, conv, idem, optOut, immediates, log>>
  /\ UNCHANGED nonCycleVars

\* the interim sendSMS settles
InterimSendNotAwaited(d, failAt) ==
  /\ procs[d].pc = "interim"
  /\ LET r == Sends["interim", failAt]
     IN procs' = [procs EXCEPT ![d] =
          [@ EXCEPT !.pc = "route", !.sent.interim = @ + Len(r.delivered)]]
  /\ UNCHANGED <<now, conv, ctx, idem, optOut, immediates, log>>
  /\ UNCHANGED nonCycleVars

InterimSendSettles(d, failAt) ==
  /\ procs[d].pc = "interim"
  /\ LET r == Sends["interim", failAt]
     IN procs' = [procs EXCEPT ![d] =
          [@ EXCEPT !.pc = IF r.threw THEN "catch" ELSE "route",
                    !.sent.interim = @ + Len(r.delivered)]]
  /\ UNCHANGED <<now, conv, ctx, idem, optOut, immediates, log>>
  /\ UNCHANGED nonCycleVars

\* subAgents.router.process returns; the processor picks the agent
RouterReturns(d, response) ==
  /\ procs[d].pc = "route"
  /\ procs' = [procs EXCEPT ![d] =
       [@ EXCEPT !.pc = "specialist", !.routing = RoutingOf(RouterContent(response))]]
  /\ UNCHANGED <<now, conv, ctx, idem, optOut, immediates, log>>
  /\ UNCHANGED nonCycleVars

\* subAgents.router.process throws
RouterThrows(d) ==
  /\ procs[d].pc = "route"
  /\ procs' = [procs EXCEPT ![d].pc = "catch"]
  /\ UNCHANGED <<now, conv, ctx, idem, optOut, immediates, log>>
  /\ UNCHANGED nonCycleVars

\* the assistant turn process stores before the final send
AssistantTurn(content, specialist, userContext) ==
  [role |-> "assistant", content |-> content, specialist |-> specialist,
   userIdentified |-> userContext]

\* selectedAgent.process returns its content (tool_calls is null)
SpecialistReturns(d, kind) ==
  /\ procs[d].pc = "specialist"
  /\ LET from == procs[d].from
         turn == AssistantTurn(kind, procs[d].routing.specialist,
                               procs[d].userContext)
     IN /\ conv' = [conv EXCEPT ![from] = addMessage(conv[from], turn, now)]
        /\ appended' = [appended EXCEPT ![from] = Appended(@, conv[from], turn, now)]
  /\ procs' = [procs EXCEPT ![d] =
       [@ EXCEPT !.pc = "final", !.finalResponse = kind, !.history = <<>>]]
  /\ UNCHANGED <<now, ctx, idem, optOut, immediates, log>>
  /\ UNCHANGED nonTurnVars

\* selectedAgent.process throws
SpecialistThrowsUncaught(d) ==
  /\ procs[d].pc = "specialist"
  /\ procs' = [procs EXCEPT ![d] =
       [NoProcess EXCEPT !.pc = "rejected", !.from = procs[d].from,
                         !.sent = procs[d].sent]]
  /\ UNCHANGED <<now, conv, ctx, idem, optOut, immediates, log>>
  /\ UNCHANGED nonCycleVars

SpecialistThrows(d) ==
  /\ procs[d].pc = "specialist"
  /\ procs' = [procs EXCEPT ![d] = [@ EXCEPT !.pc = "catch", !.history = <<>>]]
  /\ UNCHANGED <<now, conv, ctx, idem, optOut, immediates, log>>
  /\ UNCHANGED nonCycleVars

\* the invocation once process returned or rejected: its locals are gone, what
\* it sent stays on record
Returned(proc, pc, what, n) ==
  [NoProcess EXCEPT !.pc = pc, !.from = proc.from,
                    !.sent = [proc.sent EXCEPT ![what] = @ + n]]

\* the final sendSMS settles
FinalSendSettles(d, failAt) ==
  /\ procs[d].pc = "final"
  /\ LET r == Sends[procs[d].finalResponse, failAt]
     IN procs' = [procs EXCEPT ![d] =
          IF r.threw
          THEN [@ EXCEPT !.pc = "catch", !.sent.answer = @ + Len(r.delivered)]
          ELSE Returned(procs[d], "done", "answer", Len(r.delivered))]
  /\ UNCHANGED <<now, conv, ctx, idem, optOut, immediates, log>>
  /\ UNCHANGED nonCycleVars

\* the sendSMS of the catch block settles; when it throws, process rejects
ApologySendSettles(d, failAt) ==
  /\ procs[d].pc = "catch"
  /\ LET r == Sends["apology", failAt]
     IN procs' = [procs EXCEPT ![d] =
          Returned(procs[d], IF r.threw THEN "rejected" ELSE "done",
                   "apology", Len(r.delivered))]
  /\ UNCHANGED <<now, conv, ctx, idem, optOut, immediates, log>>
  /\ UNCHANGED nonCycleVars

\* time passes
Elapse(step) ==
  /\ now + step <= MaxCycleNow
  /\ now' = now + step
  /\ UNCHANGED <<conv, ctx, idem, optOut, immediates, procs, log>>
  /\ UNCHANGED nonCycleVars

\* time passes between cycles: no invocation of process is queued or running
CycleTick(step) ==
  /\ Len(immediates) = 0
  /\ \A d \in 1..MaxDeliveries : procs[d].pc \in {"none", "done", "rejected"}
  /\ Elapse(step)

CycleInit == CycleIdle /\ StoreIdle /\ LoopIdle /\ ChunkIdle /\ RouteIdle /\ SearchIdle /\ ExtractIdle /\ TimeoutIdle /\ ExecutorIdle /\ RunsIdle /\ MemoryIdle

Deliveries == 1..MaxDeliveries

CycleNext ==
  \/ \E sid \in Sids \cup {NoSid}, raw \in RawFroms, body \in Bodies,
        forbidden \in BOOLEAN : Deliver(sid, raw, body, forbidden)
  \/ StartProcess
  \/ \E d \in Deliveries, outcome \in {"user", "null", "throws"} :
        LookupSettles(d, outcome)
  \/ \E d \in Deliveries, failAt \in 0..MaxFailAt : InterimSendSettles(d, failAt)
  \/ \E d \in Deliveries, response \in CycleRouterResponses :
        RouterReturns(d, response)
  \/ \E d \in Deliveries : RouterThrows(d)
  \/ \E d \in Deliveries, kind \in ResponseKinds : SpecialistReturns(d, kind)
  \/ \E d \in Deliveries : SpecialistThrows(d)
  \/ \E d \in Deliveries, failAt \in 0..MaxFailAt : FinalSendSettles(d, failAt)
  \/ \E d \in Deliveries, failAt \in 0..MaxFailAt : ApologySendSettles(d, failAt)
  \/ \E step \in CycleTicks : CycleTick(step)

SpecCycle == CycleInit /\ [][CycleNext]_vars

(***************************************************************************)
(* The entries of one cache: records and contexts of the store, pending    *)
(* tasks and missing data, idempotency markers and opt-out flags           *)
(***************************************************************************)
MemoryTurns == 1
\* From arrives with its +
MemoryFroms == {raw \in RawFroms : raw.lead = "+"}
Tasks == {"fulfillment"}
MissingLists == {<<"address">>}

nonMemoryVars == <<loopVars, chunkVars, storeVars, routeVars, cycleVars, searchVars, extractVars, timeoutVars, executorVars, runsVars>>

\* addMessage on a record of few turns
MemoryAddMessage(id) ==
  /\ Len(appended[id]) < MemoryTurns
  /\ StoreAddMessage(id)

\* setPendingTask(phoneNumber, task)
setPendingTask(id, task) ==
  /\ pendingTask' = [pendingTask EXCEPT ![id] =
       CacheSet([task |-> task, status |-> "pending"], PendingTaskTTL, now)]
  /\ UNCHANGED missingData
  /\ UNCHANGED nonMemoryVars

\* clearPendingTask(phoneNumber)
clearPendingTask(id) ==
  /\ pendingTask' = [pendingTask EXCEPT ![id] = NoEntry]
  /\ UNCHANGED missingData
  /\ UNCHANGED nonMemoryVars

\* setMissingData(phoneNumber, missingData)
setMissingData(id, missing) ==
  /\ missingData' = [missingData EXCEPT ![id] = CacheSet(missing, PendingTaskTTL, now)]
  /\ UNCHANGED pendingTask
  /\ UNCHANGED nonMemoryVars

\* clearMissingData(phoneNumber)
clearMissingData(id) ==
  /\ missingData' = [missingData EXCEPT ![id] = NoEntry]
  /\ UNCHANGED pendingTask
  /\ UNCHANGED nonMemoryVars

\* POST /sms with STOP or START: the handler marks the delivery and sets or
\* deletes the opt-out flag
MemoryDeliver(sid, raw, body) ==
  /\ KeywordOf(body) \in {"stop", "start"}
  /\ Deliver(sid, raw, body, FALSE)

MemoryInit == CycleInit

MemoryNext ==
  \/ \E id \in Identities : MemoryAddMessage(id)
  \/ \E id \in Identities : StoreSetUserContext(id)
  \/ \E id \in Identities : StoreClear(id)
  \/ \E id \in Identities, task \in Tasks : setPendingTask(id, task)
  \/ \E id \in Identities : clearPendingTask(id)
  \/ \E id \in Identities, missing \in MissingLists : setMissingData(id, missing)
  \/ \E id \in Identities : clearMissingData(id)
  \/ \E sid \in Sids \cup {NoSid}, raw \in MemoryFroms, body \in Bodies :
        MemoryDeliver(sid, raw, body)

SpecMemory == MemoryInit /\ [][MemoryNext]_vars

(***************************************************************************)
(* Single processing cycles: the deliveries are bounded on their own, the  *)
(* steps of process are those of the cycles above                          *)
(***************************************************************************)
MaxPipelineDeliveries == 1

PipelineDeliver(sid, raw, body, forbidden) ==
  /\ Len(log) < MaxPipelineDeliveries
  /\ Deliver(sid, raw, body, forbidden)

PipelineInit == CycleInit

PipelineNext ==
  \/ \E sid \in Sids \cup {NoSid}, raw \in RawFroms, body \in Bodies,
        forbidden \in BOOLEAN : PipelineDeliver(sid, raw, body, forbidden)
  \/ StartProcess
  \/ \E d \in Deliveries, outcome \in {"user", "null", "throws"} :
        LookupSettles(d, outcome)
  \/ \E d \in Deliveries, failAt \in 0..MaxFailAt : InterimSendSettles(d, failAt)
  \/ \E d \in Deliveries, response \in CycleRouterResponses :
        RouterReturns(d, response)
  \/ \E d \in Deliveries : RouterThrows(d)
  \/ \E d \in Deliveries, kind \in ResponseKinds : SpecialistReturns(d, kind)
  \/ \E d \in Deliveries : SpecialistThrows(d)
  \/ \E d \in Deliveries, failAt \in 0..MaxFailAt : FinalSendSettles(d, failAt)
  \/ \E d \in Deliveries, failAt \in 0..MaxFailAt : ApologySendSettles(d, failAt)
  \/ \E step \in CycleTicks : CycleTick(step)

SpecPipeline == PipelineInit /\ [][PipelineNext]_vars

(***************************************************************************)
(* A cycle whose collaborators may never answer.  A call that is raced     *)
(* against a timer settles, with its result or with the TimeoutError; a    *)
(* call that is awaited bare settles only if the collaborator answers.     *)
(***************************************************************************)
\* the network call a cycle awaits at a position of process
CallAt(pc) ==
  CASE pc = "lookup" -> "identity_lookup"
    [] pc \in {"interim", "final", "catch"} -> "message_send"
    [] pc \in {"route", "specialist"} -> "reasoning_request"
    [] OTHER -> "none"

\* the milliseconds withTimeout races the call against; 0: no withTimeout
TimeoutMsOf(call) ==
  CASE call = "identity_lookup" -> 2500
    [] call = "message_send" -> 0
    [] call = "reasoning_request" -> 0
    [] OTHER -> 0

\* the positions at which a cycle is sure to move on
Bounded == {pc \in {"lookup", "interim", "route", "specialist", "final", "catch"} :
              TimeoutMsOf(CallAt(pc)) > 0}

\* a step of a cycle that awaits a call raced against a timer
BoundedStep ==
  \E d \in Deliveries : procs[d].pc \in Bounded /\ procs'[d].pc # procs[d].pc

SpecHang ==
  /\ PipelineInit /\ [][PipelineNext]_vars
  /\ WF_vars(StartProcess)
  /\ WF_vars(PipelineNext /\ BoundedStep)

(***************************************************************************)
(* One cycle together with the loop run of the specialist it selects:      *)
(* every collaborator call settles, with a result or an error, and every   *)
(* step that can be taken is taken in the end.                             *)
(***************************************************************************)
ConvergeRouterResponses ==
  [output_text : {BUSINESS_AGENT, REAL_ESTATE_AGENT},
   isArray : {FALSE}, output : {<<>>}]

ConvergeResponses ==
  {[calls |-> <<[name |-> "smart_data_query_sms", arguments |-> a]>>, text |-> "none"] :
     a \in ArgKinds}
  \cup {[calls |-> <<>>, text |-> t] : t \in {"none", "flat"}}

ConvergeDeliver(raw, body) ==
  /\ log = <<>>
  /\ body = <<"H", "i">>
  /\ Deliver(NoSid, raw, body, FALSE)

\* selectedAgent.process is called: the loop run of the selected specialist
BeginRun(d) ==
  /\ procs[d].pc = "specialist"
  /\ lPc = "idle"
  /\ lPc' = "start"
  /\ lAgent' = procs[d].routing.selectedAgent
  /\ lMessage' = <<"what", "can", "you", "do">>
  /\ UNCHANGED <<currentResponse, iterations, successfulTools, failedAttempts,
                 allToolResults, lastToolResult, toolsExecutedThisIteration,
                 callIdx, toolsOffered, lContent, lExit, requests, failures, lTrace>>
  /\ UNCHANGED nonLoopVars

\* the loop run has returned its content
RunReturns(d, kind) ==
  /\ lPc = "done"
  /\ SpecialistReturns(d, kind)

\* the loop run has rejected
RunThrows(d) ==
  /\ lPc = "threw"
  /\ SpecialistThrows(d)

ConvergeSteps ==
  \/ StartProcess
  \/ \E d \in Deliveries, outcome \in {"user", "null", "throws"} :
        LookupSettles(d, outcome)
  \/ \E d \in Deliveries, failAt \in 0..MaxFailAt : InterimSendSettles(d, failAt)
  \/ \E d \in Deliveries, response \in ConvergeRouterResponses :
        RouterReturns(d, response)
  \/ \E d \in Deliveries : RouterThrows(d)
  \/ \E d \in Deliveries : BeginRun(d)
  \/ \E response \in ConvergeResponses : LoopBegin(response)
  \/ ReasonFails
  \/ WhileHead
  \/ ForStep
  \/ \E result \in RunResults : ToolReturns(result)
  \/ ToolThrows
  \/ \E response \in ConvergeResponses : ReasonReturns(response)
  \/ ForEnd
  \/ AfterFor
  \/ Finalize
  \/ \E d \in Deliveries, kind \in ResponseKinds : RunReturns(d, kind)
  \/ \E d \in Deliveries : RunThrows(d)
  \/ \E d \in Deliveries, failAt \in 0..MaxFailAt : FinalSendSettles(d, failAt)
  \/ \E d \in Deliveries, failAt \in 0..MaxFailAt : ApologySendSettles(d, failAt)

ConvergeNext ==
  \/ \E raw \in RawFroms, body \in Bodies : ConvergeDeliver(raw, body)
  \/ ConvergeSteps

SpecConverge == CycleInit /\ [][ConvergeNext]_vars /\ WF_vars(ConvergeSteps)

(***************************************************************************)
(* Concurrent cycles seen from the store: deliveries that pass the webhook *)
(* (no MessageSid, a body that is no keyword), and the steps of the        *)
(* invocations of process they start, interleaved at their awaits; the     *)
(* channel accepts every chunk and no time passes                          *)
(***************************************************************************)
TurnBodies == {<<"H", "i">>, <<"s", "t", "o", "p", " ", "i", "t">>}

TurnsDeliver(raw, body) ==
  /\ body \in TurnBodies
  /\ Deliver(NoSid, raw, body, FALSE)

TurnsInit == CycleInit

TurnsNext ==
  \/ \E raw \in RawFroms, body \in Bodies : TurnsDeliver(raw, body)
  \/ StartProcess
  \/ \E d \in Deliveries, outcome \in {"user", "null", "throws"} :
        LookupSettles(d, outcome)
  \/ \E d \in Deliveries, failAt \in {0} : InterimSendSettles(d, failAt)
  \/ \E d \in Deliveries, response \in CycleRouterResponses :
        RouterReturns(d, response)
  \/ \E d \in Deliveries : RouterThrows(d)
  \/ \E d \in Deliveries, kind \in ResponseKinds : SpecialistReturns(d, kind)
  \/ \E d \in Deliveries : SpecialistThrows(d)
  \/ \E d \in Deliveries, failAt \in {0} : FinalSendSettles(d, failAt)
  \/ \E d \in Deliveries, failAt \in {0} : ApologySendSettles(d, failAt)

SpecTurns == TurnsInit /\ [][TurnsNext]_vars

(***************************************************************************)
(* The webhook alone: deliveries, the start of the invocations of process  *)
(* they queue, and time, which may pass at any moment                      *)
(***************************************************************************)
WebhookInit == CycleIdle /\ StoreIdle /\ LoopIdle /\ ChunkIdle /\ RouteIdle /\ SearchIdle /\ ExtractIdle /\ TimeoutIdle /\ ExecutorIdle /\ RunsIdle /\ MemoryIdle

WebhookNext ==
  \/ \E sid \in Sids \cup {NoSid}, raw \in RawFroms, body \in Bodies,
        forbidden \in BOOLEAN : Deliver(sid, raw, body, forbidden)
  \/ StartProcess
  \/ \E step \in CycleTicks : Elapse(step)

SpecWebhook == WebhookInit /\ [][WebhookNext]_vars

(***************************************************************************)
(* Properties of the routing                                               *)
(***************************************************************************)
Specialists == {"business", "real_estate", "general"}

\* C6: whatever the reasoning service answers the router, the empty text
\* included, the processor selects one of the three specialists and never the
\* router; an answer that is, once trimmed, no key of agentMap selects the
\* general specialist, and so does an empty answer.
C6_RoutingDefault ==
  rPc = "routed" =>
    /\ rRouting.selectedAgent \in Specialists
    /\ Trim(rContent) \notin DOMAIN agentMap => rRouting.selectedAgent = "general"
    /\ (~rResponse.isArray /\ Len(Trim(rResponse.output_text)) = 0)
          => rRouting.selectedAgent = "general"

\* an answer that names a property agentMap inherits was routed to general
C6_Witness ==
  /\ rPc = "routed"
  /\ rRouting.specialist \in ObjectPrototypeNames
  /\ rRouting.selectedAgent = "general"

\* C7: the router's text is matched without regard to case: any spelling
\* that equals an enumeration member once trimmed and upper-cased selects that
\* member's specialist.
C7_CaseNormalized ==
  rPc = "routed" =>
    \A name \in DOMAIN MemberNames :
      ToUpperCase(Trim(rContent)) = name
        => rRouting.selectedAgent = MemberNames[name]

(***************************************************************************)
(* Properties of the cycles                                                *)
(***************************************************************************)
\* delivery j repeats the MessageSid of delivery i within the guard window
SameMessage(i, j) ==
  /\ i < j
  /\ log[i].sid # NoSid /\ log[i].sid = log[j].sid
  /\ log[j].time <= log[i].time + IdempotencyTTL

\* the number of invocations of process delivery d started or queued
Started(d) == IF procs[d].pc = "none" THEN 0 ELSE 1

\* delivery d passed the signature check and the check of From and Body
Valid(d) == log[d].response \notin {"forbidden", "bad_request"}

\* C1 as stated: of two valid deliveries with the same MessageSid within the
\* guard window, process is started for exactly one.
C1_ExactlyOne ==
  \A i, j \in 1..Len(log) :
    (SameMessage(i, j) /\ Valid(i) /\ Valid(j)) => Started(i) + Started(j) = 1

\* C1, amended: when a delivery passes validation and is no duplicate, every
\* later delivery of its MessageSid within the guard window starts nothing
\* and is answered with the empty acknowledgement (or refused by
\* validation); process is started for the earlier delivery exactly when it
\* is an ordinary message of a sender who has not opted out.
C1_AtMostOne ==
  \A i, j \in 1..Len(log) :
    (/\ SameMessage(i, j)
     /\ log[i].response \notin {"forbidden", "bad_request", "duplicate"})
    => /\ log[j].response \in {"duplicate", "forbidden", "bad_request"}
       /\ Started(j) = 0
       /\ Started(i) = 1 <=> log[i].response = "accepted"

\* process was started for a message that was then redelivered at the last
\* second of its window
C1_Witness ==
  /\ Len(log) = 2 /\ SameMessage(1, 2)
  /\ log[1].response = "accepted" /\ procs[1].pc \notin {"none", "queued"}
  /\ log[2].response = "duplicate" /\ log[2].time = log[1].time + IdempotencyTTL

\* the final replies an invocation delivered: the answer, whole or in part,
\* and the apology
FinalReplies(d) ==
  (IF procs[d].sent.answer > 0 THEN 1 ELSE 0)
    + (IF procs[d].sent.apology > 0 THEN 1 ELSE 0)

\* the steps of one invocation of process, in the order of the pipeline
PipelineSteps ==
  {<<"none", "queued">>, <<"queued", "lookup">>, <<"queued", "interim">>,
   <<"lookup", "interim">>, <<"interim", "route">>, <<"interim", "catch">>,
   <<"route", "specialist">>, <<"route", "catch">>, <<"specialist", "final">>,
   <<"specialist", "catch">>, <<"final", "done">>, <<"final", "catch">>,
   <<"catch", "done">>, <<"catch", "rejected">>}

\* C20: every step of a processing cycle follows the order identity
\* resolution, interim send, routing request, specialist loop, final send:
\* the routing request is issued only when the interim send has completed
\* and delivered, and chunks of the final reply are sent only by the final
\* send, which follows the return of the specialist loop.
C20_PipelineOrder ==
  [][\A d \in Deliveries :
       procs'[d] # procs[d]
         => /\ <<procs[d].pc, procs'[d].pc>> \in PipelineSteps
            /\ procs'[d].pc = "route" => procs'[d].sent.interim > 0
            /\ procs'[d].sent.answer > procs[d].sent.answer => procs[d].pc = "final"]_vars

C20_Witness ==
  \E d \in Deliveries :
    /\ procs[d].pc = "done"
    /\ procs[d].sent.interim > 0 /\ procs[d].sent.answer > 0

\* C28: lookupUserByPhone is under way only in the cycle that created the
\* conversation record: while a cycle awaits the lookup, the record of its
\* sender holds nothing but the user turn that cycle has just stored.
C28_LookupOncePerRecord ==
  \A d \in Deliveries :
    procs[d].pc = "lookup" => Len(conv[procs[d].from].v) = 1

\* C29: setUserContext is never applied to an identity whose stored user
\* context is alive: a cycle whose lookup settles with a user finds no
\* stored context for its sender.
C29_WriteOnce ==
  [][\A d \in Deliveries :
       (procs[d].pc = "lookup" /\ procs'[d].userContext)
         => ~Alive(ctx[procs[d].from], now)]_vars

\* C33: every network call of a cycle is raced against a timeout, so a cycle
\* that has started ends (process returns or rejects) even when a
\* collaborator never answers.
C33_EveryCallTimeBounded ==
  \A d \in Deliveries :
    procs[d].pc = "queued" ~> procs[d].pc \in {"done", "rejected"}

\* C34: when a cycle has ended, the record of its sender ends with the
\* cycle's user turn followed by an assistant turn, and that assistant turn
\* carries the reply the sender was sent: the answer when only the answer
\* was sent, the apology when the apology was sent.
C34_BothTurnsStored ==
  \A d \in Deliveries :
    procs[d].pc \in {"done", "rejected"} =>
      LET turns == conv[procs[d].from].v
          n == Len(turns)
      IN /\ n >= 2
         /\ turns[n - 1].role = "user"
         /\ turns[n].role = "assistant"
         /\ procs[d].sent.apology > 0 => turns[n].content = "apology"
         /\ procs[d].sent.apology = 0 => turns[n].content \in ResponseKinds

C36_OptOutHonoured ==
  [][\A d \in Deliveries :
       (procs[d].pc # "none" /\ Alive(optOut[procs[d].from], now)) =>
         /\ procs'[d].sent = procs[d].sent
         /\ (procs[d].pc = "queued" => procs'[d].pc = "queued")]_vars

\* specialistMessages of process: the last 5 turns of the history it read,
\* reduced to role and content, followed by the inbound message
ContextTurns == 5

specialistMessages(conversationHistory, messageBody) ==
  LET recent == SliceLast(conversationHistory, ContextTurns)
  IN Append([i \in 1..Len(recent) |->
               [role |-> recent[i].role, content |-> recent[i].content]],
            [role |-> "user", content |-> messageBody])

\* C37: the list handed to the specialist has at most 5 turns before the
\* current inbound message, which closes the list and occurs in it once
C37_CurrentMessageOnce ==
  \A d \in Deliveries :
    procs[d].pc = "specialist" =>
      LET messages == specialistMessages(procs[d].history, procs[d].body)
      IN /\ Len(messages) <= ContextTurns + 1
         /\ messages[Len(messages)] = UserTurn(procs[d].body)
         /\ Cardinality({i \in 1..Len(messages) :
                           messages[i] = UserTurn(procs[d].body)}) = 1

\* C8: every invocation of process that has returned (the send of the
\* apology, where it came to it, went through) delivered exactly one final
\* reply to the sender, the answer or the apology.
C8_ExactlyOneFinalReply ==
  \A d \in 1..MaxDeliveries : procs[d].pc = "done" => FinalReplies(d) = 1

(***************************************************************************)
(* Runs of the property search: one action per await of                    *)
(* executeSmartPropertySearch, entered through handleSmartPropertySearch.  *)
(***************************************************************************)
nonSearchVars == <<loopVars, chunkVars, storeVars, routeVars, cycleVars, extractVars, timeoutVars, executorVars, runsVars, memoryVars>>

Call(calls, provider) ==
  Append(calls, [provider |-> provider, settled |-> FALSE, result |-> NoProviderResult])

Settle(result) ==
  [qCalls EXCEPT ![Len(qCalls)] = [@ EXCEPT !.settled = TRUE, !.result = result]]

\* Step 1: the optimizer falls back to the normalized parameters on every
\* failure of its own, then the snapshot request is issued.
GenerateAttomParameters ==
  /\ qPc = "optimize"
  /\ qPc' = "attom" /\ qCalls' = Call(qCalls, "ATTOM")
  /\ UNCHANGED <<qParameters, qResult>>
  /\ UNCHANGED nonSearchVars

\* Step 2 settles; on failure the residential test of step 3 runs outside
\* every try of the search, so its TypeError reaches the handler's catch.
AttomSettles(result) ==
  /\ qPc = "attom"
  /\ IF AttomFound(result)
       THEN /\ qPc' = "returned" /\ qCalls' = Settle(result)
            /\ qResult' = SearchSuccess(AttomSource)
       ELSE IF isResidentialQueryThrows(qParameters)
         THEN /\ qPc' = "returned" /\ qCalls' = Settle(result)
              /\ qResult' = FailedToSearch
         ELSE IF isResidentialQuery(qParameters)
           THEN /\ qPc' = "rentcast"
                /\ qCalls' = Call(Settle(result), "RentCast")
                /\ UNCHANGED qResult
           ELSE /\ qPc' = "web"
                /\ qCalls' = Call(Settle(result), "Web")
                /\ UNCHANGED qResult
  /\ UNCHANGED qParameters
  /\ UNCHANGED nonSearchVars

RentcastSettles(result) ==
  /\ qPc = "rentcast"
  /\ IF RentcastFound(result)
       THEN /\ qPc' = "returned" /\ qCalls' = Settle(result)
            /\ qResult' = SearchSuccess(RentcastSource)
       ELSE /\ qPc' = "web"
            /\ qCalls' = Call(Settle(result), "Web")
            /\ UNCHANGED qResult
  /\ UNCHANGED qParameters
  /\ UNCHANGED nonSearchVars

WebSettles(result) ==
  /\ qPc = "web"
  /\ qPc' = "returned"
  /\ IF WebFound(result)
       THEN qCalls' = Settle(result) /\ qResult' = SearchSuccess(WebSource)
       ELSE qCalls' = Settle(result) /\ qResult' = AllSearchesFailed
  /\ UNCHANGED qParameters
  /\ UNCHANGED nonSearchVars

SearchInit ==
  /\ qParameters \in SearchParameters /\ qPc = "optimize" /\ qCalls = <<>>
  /\ qResult = NoSearchResult
  /\ LoopIdle /\ ChunkIdle /\ StoreIdle /\ RouteIdle /\ CycleIdle /\ ExtractIdle /\ TimeoutIdle /\ ExecutorIdle /\ RunsIdle /\ MemoryIdle

SearchNext ==
  \/ GenerateAttomParameters
  \/ \E result \in AttomResults : AttomSettles(result)
  \/ \E result \in RentcastResults : RentcastSettles(result)
  \/ \E result \in WebResults : WebSettles(result)

SpecSearch == SearchInit /\ [][SearchNext]_vars

(***************************************************************************)
(* Runs of withTimeout.  A timer callback is a task of the event loop and  *)
(* runs only when the microtask queue is empty.                            *)
(***************************************************************************)
nonTimeoutVars == <<loopVars, chunkVars, storeVars, routeVars, cycleVars, searchVars, extractVars, executorVars, runsVars, memoryVars>>

\* lines 21-32: the timer is set and both promises enter the race; a promise
\* that is settled already has its reaction queued at once
WithTimeoutCalled ==
  /\ wPc = "called"
  /\ wPc' = "awaiting" /\ wTimer' = "pending"
  /\ wJobs' = IF wCall = "pending" THEN wJobs ELSE Append(wJobs, "promise_reaction")
  /\ UNCHANGED <<wMs, wCall, wRace, wOutcome, wNow, wEvents>>
  /\ UNCHANGED nonTimeoutVars

\* the wrapped promise settles, at any time
PromiseSettles(how) ==
  /\ wCall = "pending" /\ wPc # "called"
  /\ wCall' = how
  /\ wJobs' = Append(wJobs, "promise_reaction")
  /\ wEvents' = Append(wEvents, how)
  /\ UNCHANGED <<wMs, wPc, wTimer, wRace, wOutcome, wNow>>
  /\ UNCHANGED nonTimeoutVars

\* lines 24-28: the callback of setTimeout rejects timeoutPromise
TimerFires ==
  /\ wTimer = "pending" /\ wNow >= wMs /\ wJobs = <<>>
  /\ wTimer' = "fired"
  /\ wJobs' = Append(wJobs, "timeout_reaction")
  /\ wEvents' = Append(wEvents, "timer")
  /\ UNCHANGED <<wMs, wPc, wCall, wRace, wOutcome, wNow>>
  /\ UNCHANGED nonTimeoutVars

\* a reaction of Promise.race: the first one settles the race and queues the
\* continuation of the await, a later one finds the race settled
RaceReaction ==
  /\ wJobs # <<>> /\ Head(wJobs) \in {"promise_reaction", "timeout_reaction"}
  /\ IF wRace = "pending"
       THEN /\ wRace' = IF Head(wJobs) = "timeout_reaction" THEN "timeout" ELSE wCall
            /\ wJobs' = Append(Tail(wJobs), "continuation")
       ELSE /\ wJobs' = Tail(wJobs)
            /\ UNCHANGED wRace
  /\ UNCHANGED <<wMs, wPc, wCall, wTimer, wOutcome, wNow, wEvents>>
  /\ UNCHANGED nonTimeoutVars

\* lines 32-50: the await returns or throws, and try, catch and finally
\* clear the timer
AwaitContinues ==
  /\ wJobs # <<>> /\ Head(wJobs) = "continuation"
  /\ wPc = "awaiting"
  /\ wPc' = "returned"
  /\ wOutcome' = RaceOutcome(wRace)
  /\ wTimer' = clearTimeout(wTimer)
  /\ wJobs' = Tail(wJobs)
  /\ UNCHANGED <<wMs, wCall, wRace, wNow, wEvents>>
  /\ UNCHANGED nonTimeoutVars

\* a millisecond passes; a due timer fires before more time passes
TimeoutTick ==
  /\ wJobs = <<>> /\ wPc # "called" /\ wNow < MaxClock
  /\ wTimer = "pending" => wNow < wMs
  /\ wNow' = wNow + 1
  /\ UNCHANGED <<wMs, wPc, wCall, wTimer, wRace, wOutcome, wJobs, wEvents>>
  /\ UNCHANGED nonTimeoutVars

TimeoutInit ==
  /\ wMs \in 1..MaxTimeoutMs /\ wPc = "called"
  /\ wCall \in {"pending"} \cup Settlements
  /\ wEvents = IF wCall = "pending" THEN <<>> ELSE <<wCall>>
  /\ wTimer = "unset" /\ wRace = "pending" /\ wOutcome = "pending"
  /\ wJobs = <<>> /\ wNow = 0
  /\ LoopIdle /\ ChunkIdle /\ StoreIdle /\ RouteIdle /\ CycleIdle /\ SearchIdle /\ ExtractIdle /\ ExecutorIdle /\ RunsIdle /\ MemoryIdle

TimeoutNext ==
  \/ WithTimeoutCalled
  \/ \E how \in Settlements : PromiseSettles(how)
  \/ TimerFires
  \/ RaceReaction
  \/ AwaitContinues
  \/ TimeoutTick

SpecTimeout == TimeoutInit /\ [][TimeoutNext]_vars

(***************************************************************************)
(* Properties of withTimeout.                                              *)
(***************************************************************************)
\* C16: once withTimeout has settled, its outcome is the value or error of
\* the wrapped promise when that settled before the timer fired, and
\* TimeoutError otherwise, which happens no earlier than timeoutMs; no timer
\* is pending; and a settlement of the wrapped promise after the timeout
\* leaves the outcome TimeoutError.
C16_TimeoutOutcome ==
  wPc = "returned"
    => /\ wEvents # <<>>
       /\ wOutcome = IF Head(wEvents) = "timer" THEN "TimeoutError" ELSE Head(wEvents)
       /\ wOutcome = "TimeoutError" => wNow >= wMs
       /\ wTimer = IF Head(wEvents) = "timer" THEN "fired" ELSE "cleared"

C16_Witness ==
  /\ wPc = "returned" /\ wOutcome = "TimeoutError"
  /\ wEvents = <<"timer", "value">> /\ wJobs = <<>>

(***************************************************************************)
(* Runs of SMSToolExecutor.execute: one tool call of one cycle.            *)
(***************************************************************************)
nonExecutorVars == <<loopVars, chunkVars, storeVars, routeVars, cycleVars, searchVars, extractVars, timeoutVars, runsVars, memoryVars>>

Return(payload) ==
  /\ xPc' = "returned" /\ xPayload' = payload

DataRequest(endpoint) ==
  [endpoint |-> endpoint, userId |-> xContext, organizationId |-> xContext,
   phoneNumber |-> NoPhone]

\* default of the switch
ExecuteUnknownTool ==
  /\ xPc = "called" /\ xTool = UnknownTool
  /\ Return(ErrorAndMessage)
  /\ UNCHANGED <<xSender, xContext, xTool, xArguments, xRequests, xReads, xSession>>
  /\ UNCHANGED nonExecutorVars

\* handleUserLookup up to its await
HandleUserLookup ==
  /\ xPc = "called" /\ xTool = "lookup_outcome_user_sms"
  /\ xRequests' = Append(xRequests,
       [endpoint |-> "user/by-phone", userId |-> "none", organizationId |-> "none",
        phoneNumber |-> LookupPhone(xSender, xArguments)])
  /\ xPc' = "lookup"
  /\ UNCHANGED <<xSender, xContext, xTool, xArguments, xReads, xSession, xPayload>>
  /\ UNCHANGED nonExecutorVars

\* lookupUserByPhone settles
UserLookupSettles(outcome) ==
  /\ xPc = "lookup"
  /\ xSession' = IF outcome = "user" THEN LookupPhone(xSender, xArguments) ELSE xSession
  /\ Return(IF outcome = "throws" THEN ErrorOnly ELSE MessageOnly)
  /\ UNCHANGED <<xSender, xContext, xTool, xArguments, xRequests, xReads>>
  /\ UNCHANGED nonExecutorVars

\* handleGetUserOutcomes, handleGetDataTables, handleGetTableData and
\* handleGetChatHistory up to their await
HandleContextTool ==
  /\ xPc = "called" /\ xTool \in ContextTools
  /\ IF xContext = NoContext
       THEN Return(ErrorOnly) /\ UNCHANGED xRequests
       ELSE /\ xRequests' = Append(xRequests, DataRequest(xTool))
            /\ xPc' = "provider" /\ UNCHANGED xPayload
  /\ UNCHANGED <<xSender, xContext, xTool, xArguments, xReads, xSession>>
  /\ UNCHANGED nonExecutorVars

\* the ATTOM, RentCast, web and property-search handlers up to their await;
\* handleWebSearch returns at once without a query
HandleProviderTool ==
  /\ xPc = "called" /\ xTool \in ProviderTools
  /\ IF xTool = "web_search_sms" /\ ~xArguments.hasQuery
       THEN Return(ErrorOnly)
       ELSE xPc' = "provider" /\ UNCHANGED xPayload
  /\ UNCHANGED <<xSender, xContext, xTool, xArguments, xRequests, xReads, xSession>>
  /\ UNCHANGED nonExecutorVars

\* the client call of a handler settles: the payload is returned as it is,
\* a rejection ends in the handler's catch
ProviderSettles(outcome) ==
  /\ xPc = "provider"
  /\ Return(PassedThrough(outcome))
  /\ UNCHANGED <<xSender, xContext, xTool, xArguments, xRequests, xReads, xSession>>
  /\ UNCHANGED nonExecutorVars

\* handleSmartDataQuery up to getUserOutcomes: without a query it reads the
\* conversation of userContext.phoneNumber
HandleSmartDataQuery ==
  /\ xPc = "called" /\ xTool = "smart_data_query_sms"
  /\ IF xContext = NoContext
       THEN Return(ErrorOnly) /\ UNCHANGED <<xRequests, xReads>>
       ELSE /\ xReads' = IF xArguments.hasQuery THEN xReads ELSE Append(xReads, xContext)
            /\ xRequests' = Append(xRequests, DataRequest("outcomes"))
            /\ xPc' = "outcomes" /\ UNCHANGED xPayload
  /\ UNCHANGED <<xSender, xContext, xTool, xArguments, xSession>>
  /\ UNCHANGED nonExecutorVars

\* a request of handleSmartDataQuery settles: getUserOutcomes, getDataTables,
\* then getTableData, whose failure the handler skips
SmartDataRequestSettles(outcome, empty) ==
  /\ xPc \in {"outcomes", "tables", "table_data"}
  /\ IF xPc = "table_data"
       THEN Return(DataOnly) /\ UNCHANGED xRequests
     ELSE IF outcome = "throws" \/ outcome \in {"error_only", "error_and_message"}
       THEN Return(ErrorOnly) /\ UNCHANGED xRequests
     ELSE IF empty
       THEN Return(DataOnly) /\ UNCHANGED xRequests
     ELSE /\ xRequests' = Append(xRequests,
                 DataRequest(IF xPc = "outcomes" THEN "data-tables" ELSE "table-data"))
          /\ xPc' = IF xPc = "outcomes" THEN "tables" ELSE "table_data"
          /\ UNCHANGED xPayload
  /\ UNCHANGED <<xSender, xContext, xTool, xArguments, xReads, xSession>>
  /\ UNCHANGED nonExecutorVars

ExecutorInit ==
  /\ xSender \in Identities
  /\ xContext \in {NoContext, ContextOf(xSender)}
  /\ xTool \in ExecutorTools \cup {UnknownTool}
  /\ xArguments \in ExecutorArguments
  /\ xPc = "called" /\ xRequests = <<>> /\ xReads = <<>> /\ xSession = "null"
  /\ xPayload = NoPayload
  /\ LoopIdle /\ ChunkIdle /\ StoreIdle /\ RouteIdle /\ CycleIdle /\ SearchIdle /\ ExtractIdle /\ TimeoutIdle /\ RunsIdle /\ MemoryIdle

ExecutorNext ==
  \/ ExecuteUnknownTool
  \/ HandleUserLookup
  \/ \E outcome \in {"user", "null", "throws"} : UserLookupSettles(outcome)
  \/ HandleContextTool
  \/ HandleProviderTool
  \/ \E outcome \in ProviderOutcomes : ProviderSettles(outcome)
  \/ HandleSmartDataQuery
  \/ \E outcome \in ProviderOutcomes, empty \in BOOLEAN :
        SmartDataRequestSettles(outcome, empty)

SpecExecutor == ExecutorInit /\ [][ExecutorNext]_vars

(***************************************************************************)
(* Properties of the tool executor.                                        *)
(***************************************************************************)
\* C17: execute never raises, and every payload it returns with an error
\* field has a message field too.
C17_ErrorContract ==
  xPc = "returned" => ~xPayload.raised /\ (xPayload.hasError => xPayload.hasMessage)

\* C19: every request a cycle of a sender sends to the Outcome provider
\* carries the userId and organizationId of the sender's stored context or
\* the sender's own phone number, and the cycle reads no conversation key of
\* another sender.
C19_TenantIsolation ==
  /\ \A i \in 1..Len(xRequests) :
       IF xRequests[i].endpoint = "user/by-phone"
         THEN xRequests[i].phoneNumber = xSender
         ELSE /\ xRequests[i].userId = ContextOf(xSender)
              /\ xRequests[i].organizationId = ContextOf(xSender)
  /\ \A i \in 1..Len(xReads) : xReads[i] = xSender

(***************************************************************************)
(* Runs of the final text extraction on every reasoning result and last    *)
(* tool result.                                                            *)
(***************************************************************************)
nonExtractVars == <<loopVars, chunkVars, storeVars, routeVars, cycleVars, searchVars, timeoutVars, executorVars, runsVars, memoryVars>>

ExtractFinalText ==
  /\ ePc = "extract"
  /\ eContent' = extractFinalText(eAgent, eResponse, eResult)
  /\ ePc' = "returned"
  /\ UNCHANGED <<eAgent, eResponse, eResult>>
  /\ UNCHANGED nonExtractVars

ExtractInit ==
  /\ eAgent \in Agents /\ eResponse \in ExtractResponses /\ eResult \in ExtractResults
  /\ eContent = <<>> /\ ePc = "extract"
  /\ LoopIdle /\ ChunkIdle /\ StoreIdle /\ RouteIdle /\ CycleIdle /\ SearchIdle /\ TimeoutIdle /\ ExecutorIdle /\ RunsIdle /\ MemoryIdle

ExtractNext == ExtractFinalText

SpecExtract == ExtractInit /\ [][ExtractNext]_vars

(***************************************************************************)
(* Properties of the final text extraction.                                *)
(***************************************************************************)
\* C13: for every specialist, reasoning result and last tool result the
\* content returned by the loop is a non-empty, non-blank string.
C13_NonEmptyReply == ePc = "returned" => Trim(eContent) # <<>>

\* C14: when a tool result exists and the final reasoning result yields no
\* text, the reply is a templated summary, the result's message below the
\* ceiling, or a string result below the ceiling; never the serialized
\* result or a string of unbounded length.
C14_NoRawPayload ==
  (ePc = "returned" /\ ModelText(eResponse) = <<>> /\ eResult.type # "null")
    => \/ eContent \in {GeneralSummary, WorkspaceSummary, Apology(eAgent)}
       \/ eContent = FoundDataFrom \o eResult.outcome \o OutcomeSentenceEnd \o PleaseLetMeKnow
       \/ /\ eResult.hasMessage /\ eContent = eResult.message
          /\ Len(eContent) < SummaryCeiling
       \/ /\ eResult.type = "string" /\ eContent = eResult.text
          /\ Len(eContent) < SummaryCeiling

(***************************************************************************)
(* Properties of the property search.                                      *)
(***************************************************************************)
Providers == [i \in 1..Len(qCalls) |-> qCalls[i].provider]

\* A provider supplied data: a payload without error mark, and for the
\* snapshot and the web search a non-empty list in it.
Usable(call) ==
  /\ call.settled /\ ~call.result.throws /\ ~call.result.isNull /\ ~call.result.error
  /\ call.provider = "RentCast" \/ call.result.properties > 0

SourceOf(provider) ==
  CASE provider = "ATTOM" -> AttomSource
    [] provider = "RentCast" -> RentcastSource
    [] OTHER -> WebSource

\* C11: the providers are called in the order ATTOM, RentCast, web; RentCast
\* only when ATTOM failed and the query is residential, the web search only
\* when every provider tried before failed; once a provider supplies data no
\* later one is called and the result is a success naming that provider.
C11_ProviderPriority ==
  /\ Providers \in {<<>>, <<"ATTOM">>, <<"ATTOM", "RentCast">>, <<"ATTOM", "Web">>,
                    <<"ATTOM", "RentCast", "Web">>}
  /\ \A i \in 1..(Len(qCalls) - 1) : qCalls[i].settled /\ ~Usable(qCalls[i])
  /\ (\E i \in 1..Len(qCalls) : qCalls[i].provider = "RentCast")
       => qParameters.hasQuery /\ isResidentialQuery(qParameters)
  /\ qResult.success = "true"
       => /\ qPc = "returned" /\ qCalls # <<>>
          /\ Usable(qCalls[Len(qCalls)])
          /\ qResult.source = SourceOf(qCalls[Len(qCalls)].provider)
  /\ (qCalls # <<>> /\ Usable(qCalls[Len(qCalls)]))
       => qPc = "returned" /\ qResult.success = "true"

C11_Witness ==
  /\ Providers = <<"ATTOM", "RentCast", "Web">>
  /\ qResult = SearchSuccess(WebSource)
  /\ Usable(qCalls[3])

\* C12: whatever hints the search carries, a search in which no provider
\* supplied data has reached the web search and returns success=false with
\* an apology message.
C12_TotalFailure ==
  (qPc = "returned" /\ \A i \in 1..Len(qCalls) : ~Usable(qCalls[i]))
    => /\ qCalls[Len(qCalls)].provider = "Web"
       /\ qResult.success = "false" /\ qResult.hasMessage

(***************************************************************************)
(* Properties of the store under concurrent cycles                         *)
(***************************************************************************)
\* the invocations of process for an identity that have stored their user turn
StartedFor(id) ==
  {d \in Deliveries : procs[d].from = id /\ procs[d].pc \notin {"none", "queued"}}

\* C30: under every interleaving of the cycles, the record of an identity
\* holds exactly the turns appended for that identity, each once and in the
\* order of the appends (up to the retention cap): every started cycle has
\* its user turn there, and an identity without a cycle has no record.
C30_AtomicAppends ==
  \A id \in Identities :
    /\ Alive(conv[id], now) <=> StartedFor(id) # {}
    /\ Alive(conv[id], now) => conv[id].v = SliceLast(appended[id], RetentionCap)
    /\ Len(appended[id]) >= Cardinality(StartedFor(id))
    /\ Len(appended[id]) <= 2 * Cardinality(StartedFor(id))

C30_Witness ==
  \E id \in Identities :
    /\ Cardinality(StartedFor(id)) = 2
    /\ Len(conv[id].v) = 4
    /\ conv[id].v[1].role = "user" /\ conv[id].v[2].role = "user"

\* the positions of the turns of one role among the first k turns
RoleCount(turns, role, k) == Cardinality({i \in 1..k : turns[i].role = role})

\* the invocations of process that hold the history they read
HoldingHistory == {d \in Deliveries : procs[d].pc \in {"interim", "route", "specialist"}}

\* C31: overlapping cycles of one identity are ordered by nothing but their
\* own steps.  What holds of a record is only that it has one user turn per
\* started cycle and at no point more assistant turns than user turns, and of
\* the history a cycle reads that it is the window of the record at the
\* moment of the read and holds that cycle's user turn: the turns other
\* cycles had stored by then are part of it.
C31_UnorderedCycles ==
  /\ \A id \in Identities :
        /\ RoleCount(conv[id].v, "user", Len(conv[id].v)) = Cardinality(StartedFor(id))
        /\ \A k \in 1..Len(conv[id].v) :
              RoleCount(conv[id].v, "assistant", k) <= RoleCount(conv[id].v, "user", k)
  /\ \A d \in HoldingHistory :
        LET turns == appended[procs[d].from]
            history == procs[d].history
        IN /\ \E k \in 1..Len(turns) :
                history = SliceLast(SubSeq(turns, 1, k), HistoryForProcess)
           /\ \E i \in 1..Len(history) : history[i] = UserTurn(procs[d].body)

\* the record (user, user, assistant, assistant) of two overlapping cycles
C31_Witness ==
  \E id \in Identities :
    /\ \A d \in Deliveries : procs[d].from = id /\ procs[d].pc = "done"
    /\ [i \in 1..Len(conv[id].v) |-> conv[id].v[i].role]
         = <<"user", "user", "assistant", "assistant">>
    /\ conv[id].v[1].content # conv[id].v[2].content

\* a cycle about to call its specialist with the other cycle's user turn and
\* assistant turn in the history it read
C31_SharedContext ==
  \E d \in Deliveries, e \in Deliveries :
    /\ d # e /\ procs[d].from = procs[e].from
    /\ procs[d].pc = "specialist" /\ procs[e].pc = "done"
    /\ Len(procs[d].history) = 3
    /\ procs[d].history[1].content # procs[d].body
    /\ procs[d].history[2].role = "assistant"

(***************************************************************************)
(* Properties of the conversation store                                    *)
(***************************************************************************)
\* C39: a clearConversation(id) step leaves the record and the context of id
\* absent, so that a read of the history gives the empty sequence and a read
\* of the context gives null, and changes neither the record or context of
\* another identity nor any pending task, missing data, idempotency marker or
\* opt-out flag
C39_ClearFrame ==
  [][\A id \in Identities :
       StoreClear(id) =>
         /\ getConversationHistory(conv'[id], DefaultHistoryLimit, now') = <<>>
         /\ getUserContext(ctx'[id], now') = <<>>
         /\ \A other \in Identities \ {id} :
               conv'[other] = conv[other] /\ ctx'[other] = ctx[other]
         /\ UNCHANGED <<pendingTask, missingData, idem, optOut>>]_vars

\* after a clear of one identity: its pending task, missing data and opt-out
\* flag, a marker, and the record and context of the other identity are there
C39_Witness ==
  /\ sOp.op = "clear"
  /\ conv[sOp.id] = NoEntry /\ ctx[sOp.id] = NoEntry
  /\ Alive(pendingTask[sOp.id], now)
  /\ Alive(missingData[sOp.id], now)
  /\ Alive(optOut[sOp.id], now)
  /\ \E sid \in Sids : Alive(idem[sid], now)
  /\ \A other \in Identities \ {sOp.id} :
        /\ Alive(ctx[other], now)
        /\ Len(getConversationHistory(conv[other], DefaultHistoryLimit, now)) = MemoryTurns

\* C38: a read with limit n returns the most recent min(n, stored) turns of the
\* record, oldest first, hence at most n turns, and nothing without a record
C38_ReadLimit ==
  sOp.op = "get" =>
    LET stored == IF Alive(conv[sOp.id], now) THEN conv[sOp.id].v ELSE <<>>
        n == IF sOp.limit < Len(stored) THEN sOp.limit ELSE Len(stored)
    IN /\ Len(sOp.result) <= sOp.limit
       /\ sOp.result = SubSeq(stored, Len(stored) - n + 1, Len(stored))

\* C5: while a record is alive the stored history is exactly the last
\* min(k, 50) of the k turns appended since it began, in insertion order; and
\* getConversationHistory(id, n) with n >= 1 right after an append returns at
\* most 50 turns, the last of which is the turn just appended.
C5_OrderAndCap ==
  /\ \A id \in Identities :
        Alive(conv[id], now) =>
          /\ conv[id].v = SliceLast(appended[id], RetentionCap)
          /\ Len(conv[id].v) <= RetentionCap
          /\ Len(appended[id]) >= 1
  /\ (sOp.op = "get" /\ sOp.afterAdd /\ sOp.limit >= 1) =>
        /\ Len(sOp.result) >= 1
        /\ Len(sOp.result) <= RetentionCap
        /\ sOp.result[Len(sOp.result)] = TurnOf(Len(appended[sOp.id]))

\* C15: an append or a read of a live record leaves the turns and the user
\* context of that identity with the full window of stdTTL ahead, and the
\* turns and the user context of one identity are alive together.
C15_RecordLifetime ==
  \A id \in Identities :
    /\ (sOp.id = id /\ sOp.op \in {"add", "get", "get_context"} /\ Alive(conv[id], now))
         => /\ conv[id].t = now + stdTTL
            /\ ctx[id].has => ctx[id].t = now + stdTTL
    /\ (conv[id].has /\ ctx[id].has) => (Alive(conv[id], now) <=> Alive(ctx[id], now))

C5_Witness ==
  /\ sOp.op = "get" /\ sOp.afterAdd /\ sOp.limit > RetentionCap
  /\ Len(appended[sOp.id]) > RetentionCap
  /\ Len(sOp.result) = RetentionCap

(***************************************************************************)
(* Properties of chunkMessage and sendSMS                                  *)
(***************************************************************************)
\* a chunk without its part marker, as chunk i of n
StripMarker(chunk, i, n) ==
  IF n > 1 THEN SubSeq(chunk, Len(PartMarker(i, n)) + 1, Len(chunk)) ELSE chunk

StrippedChunks(chunks) ==
  [i \in 1..Len(chunks) |-> StripMarker(chunks[i], i, Len(chunks))]

IsInk(c) == ~IsWhitespace(c)

WithoutWhitespace(s) == SelectSeq(s, IsInk)

\* C9 (as claimed): every chunk sendSMS hands to the channel, part marker
\* included, is at most DefaultMaxLength characters long.
C9_ChunkLength ==
  cPc = "sent" => \A i \in 1..Len(cSent) : Len(cSent[i]) <= DefaultMaxLength

\* C10 (as claimed): the chunks of chunkMessage, stripped of their part markers
\* and concatenated in order, equal the original text.
C10_RoundTripExact ==
  cPc = "chunked" => Concat(StrippedChunks(cChunks)) = cText

\* C10 (amended): a text no longer than the limit comes back as the single
\* chunk; for a longer text the stripped chunks concatenated in order equal the
\* original text up to whitespace (both sides with whitespace removed).
C10_RoundTripUpToWhitespace ==
  cPc = "chunked" =>
    /\ Len(cText) <= cLimit => cChunks = <<cText>>
    /\ WithoutWhitespace(Concat(StrippedChunks(cChunks))) = WithoutWhitespace(cText)

C10_Witness ==
  /\ cPc = "chunked" /\ Len(cText) > cLimit /\ Len(cChunks) > 1
  /\ Concat(StrippedChunks(cChunks)) # cText

\* C40: for a text that is not blank and a positive limit, every chunk of
\* chunkMessage has a body, the part marker aside, of at least one character
C40_NoEmptyChunk ==
  (cPc = "chunked" /\ Trim(cText) # <<>> /\ cLimit > 0) =>
    \A i \in 1..Len(cChunks) : StrippedChunks(cChunks)[i] # <<>>

(***************************************************************************)
(* Properties of the tool loop                                             *)
(***************************************************************************)
Occurrences(seq, x) == Cardinality({i \in 1..Len(seq) : seq[i] = x})

CurrentCallName == currentResponse.calls[callIdx].name

\* C18: every tool a loop run executes or has executed belongs to the catalog of the specialist that runs the loop; the
\* business specialist never executes the property search.
C18_CatalogConfinement ==
  \A name \in DOMAIN RegisteredNameText :
    (\/ lPc = "exec" /\ CurrentCallName = name
     \/ \E i \in 1..Len(allToolResults) : allToolResults[i] = name)
      => name \in CatalogOf(lAgent)

\* C2: in every specialist the while loop runs at most 10 iterations and at
\* most 11 reasoning requests are issued in total; a run that is stopped by the iteration bound goes on to the
\* final text extraction and returns a content.
C2_LoopTermination ==
  /\ iterations <= maxIterations
  /\ requests <= maxIterations + 1
  /\ lExit = "bound" => (iterations = maxIterations /\ lPc \in {"final", "done"})
  /\ (lPc = "done" /\ lExit = "bound") =>
        lContent = FinalText(lAgent, currentResponse, lastToolResult)

\* C3: within one loop run each tool name has at most one successful
\* execution, and no invocation of a name that already succeeded reaches the
\* tool executor.
C3_DuplicateSuppression ==
  /\ \A n \in ToolNames : Occurrences(allToolResults, n) <= 1
  /\ lPc = "exec" => CurrentCallName \notin successfulTools

C3_Witness == lPc = "for" /\ lTrace = "skip_duplicate" /\ successfulTools # {}

\* C4: within one loop run no tool name collects more than 2 failed attempts
\* (parse failure, failed fallback extraction, execution exception), and an
\* invocation of a name that has failed 2 times never reaches the tool executor.
C4_FailureCeiling ==
  /\ \A n \in ToolNames : failures[n] <= 2
  /\ lPc = "exec" => failures[CurrentCallName] < 2

C4_Witness ==
  /\ lAgent = "general" /\ lTrace = "skip_ceiling"
  /\ \E n \in ToolNames : failures[n] = 2 /\ n \notin successfulTools

\* C21: once the follow-up reasoning request of a successful execution has
\* been built without a tool catalog (the withdrawal condition held), no tool
\* is handed to the tool executor any more in that run.
C21_WithdrawalFinalizes ==
  (requests > 0 /\ ~toolsOffered) => lPc # "exec"

\* C22: with a reasoning service that returns no function call when it was
\* offered no tools, a loop run executes at most 2 tools successfully and
\* issues at most 3 reasoning requests.
C22_BoundedChaining ==
  /\ Len(allToolResults) <= 2
  /\ requests <= 3

\* C23: when the for loop of an iteration has ended without a tool having
\* been executed, the loop goes to the final text extraction; it does not
\* start another iteration on the same reasoning result.
C23_NoSpinning ==
  [][(lPc = "after_for" /\ ~toolsExecutedThisIteration) => lPc' = "final"]_vars

\* C24: a function call whose arguments do not parse never reaches the tool
\* executor, is counted as a failed attempt of its name, and leaves the loop
\* running: the run does not end with the parse error.
C24_ParseFailureNotFatal ==
  /\ lPc = "exec" => currentResponse.calls[callIdx].arguments # "bad"
  /\ lTrace = "parse_failed" =>
       /\ lPc = "for"
       /\ \E n \in ToolNames : failedAttempts[n] > 0
  /\ lExit # "parse_error"

\* C25: a function call whose arguments parse to an empty object reaches the
\* tool executor only with parameters extracted from the last user turn; when
\* the extraction yields nothing the call is counted as failed and skipped.
C25_NoEmptyArguments ==
  /\ (lPc = "exec" /\ currentResponse.calls[callIdx].arguments = "empty") =>
       /\ lTrace = "execute_fallback"
       /\ extractFallbackParameters(CurrentCallName, lMessage)
  /\ lTrace = "fallback_failed" =>
       /\ lPc = "for"
       /\ \E n \in ToolNames : failedAttempts[n] > 0

\* C26: when the tool executor rejects, the general loop adds one failed
\* attempt to the name of the call and goes on with the next call of the
\* result; the business and real-estate loops return their apology at once,
\* and after that return no reasoning request is issued and no tool executed.
C26_ExceptionPolicy ==
  [][/\ (lPc = "exec" /\ lTrace' = "tool_threw") =>
          IF lAgent = "general"
          THEN /\ failedAttempts' = Bump(failedAttempts, CurrentCallName)
               /\ callIdx' = callIdx + 1
               /\ lPc' = "for"
               /\ lContent' = lContent
          ELSE /\ lPc' = "done"
               /\ lContent' = "tool_error_apology"
               /\ failedAttempts' = failedAttempts
     /\ lExit = "tool_error" =>
          /\ lAgent # "general"
          /\ lPc' = "done"
          /\ requests' = requests
          /\ allToolResults' = allToolResults
          /\ lContent' = lContent]_vars

C26_Witness ==
  /\ lAgent = "business" /\ lPc = "done" /\ lTrace = "tool_threw"
  /\ lContent = "tool_error_apology" /\ allToolResults # <<>>

\* C27 as stated: of the function calls of one reasoning result at most one
\* is handed to the tool executor before the next reasoning request; here in
\* the form that no call is handed to the executor right after the execution
\* of an earlier call of the same result was rejected.
C27_OnePerResult ==
  [][~(lPc = "for" /\ lTrace = "tool_threw" /\ lPc' = "exec")]_vars

\* C27, amended: after every successful execution a reasoning request is
\* issued and settled before any other call is handed to the tool executor,
\* so at most one call of a reasoning result is executed successfully before
\* the next request; one awaited execution is under way at a time.
C27_OneSuccessPerRequest ==
  /\ lPc = "exec" => requests > Len(allToolResults)
  /\ lPc = "reason" => requests = Len(allToolResults)
  /\ requests >= Len(allToolResults)

C27_Witness ==
  /\ lPc = "reason" /\ Len(currentResponse.calls) = 2 /\ callIdx = 1
  /\ allToolResults = <<currentResponse.calls[1].name>>

\* the relations between the locals of one loop run, as they hold of a run
\* that is alone
RunCoherent(run) ==
  /\ {run.allToolResults[i] : i \in 1..Len(run.allToolResults)} = run.successfulTools
  /\ Len(run.allToolResults) = Cardinality(run.successfulTools)
  /\ (run.lastToolResult = "null") = (run.allToolResults = <<>>)
  /\ run.iterations <= maxIterations
  /\ run.requests >= Len(run.allToolResults)
  /\ run.lPc \in {"exec", "reason"} =>
       run.currentResponse.calls[run.callIdx].name \in
         IF run.lPc = "exec" THEN ToolNames \ run.successfulTools
                             ELSE run.successfulTools
  /\ \A n \in ToolNames : run.failedAttempts[n] > 0 => run.lAgent = "general"

\* C32: of two loop runs in progress at the same time, a step of the one
\* that executes leaves the locals of the other as they are, a run that is
\* resumed finds its locals as it left them, and the locals of each run
\* stand in the relations they have in a run that is alone.
C32_LoopStateIsolation ==
  /\ [][\/ suspended' = suspended
        \/ suspended' = RunState /\ RunState' = suspended]_vars
  /\ [](RunCoherent(RunState) /\ RunCoherent(suspended))

C32_Witness ==
  /\ lAgent = suspended.lAgent
  /\ lPc = "done" /\ suspended.lPc = "done"
  /\ successfulTools # {} /\ suspended.successfulTools # {}
  /\ successfulTools # suspended.successfulTools
  /\ iterations # suspended.iterations
====
